---- MODULE Spec2Model ----
(***************************************************************************)
(* x402-chain-miden: facilitator verification and settlement of V2 Miden   *)
(* "exact" payments (src/v2_miden_exact/facilitator.rs, src/privacy/*.rs,  *)
(* src/chain/provider.rs).                                                 *)
(*                                                                         *)
(* Text is modelled as a sequence of one-character strings, so that a      *)
(* decimal amount is parsed digit by digit as the code parses it.          *)
(***************************************************************************)
EXTENDS Integers, Sequences, FiniteSets, TLC

\* build   the cargo features the crate was built with
\* pc      "idle", or "done" when a call has returned and is not yet answered
\* op      the function the current call entered
\* req     the input of the current call
\* result  what the call returned
\* stages  the steps the call went through, in order
\* rpc     the calls made on the provider and by it on the node, in order
\* genesis the genesis commitment registered on the provider's RPC client
\* nodeAnswer  what the rollup node answers during the current settle call
\* first   the verdict of the first verify call on the watched request
\* mutex   the holder of the signer's client mutex
\* signerCalls the create_and_prove calls in progress on the signer, by caller
VARIABLES build, pc, op, req, result, stages, rpc, genesis, nodeAnswer, first, mutex, signerCalls

vars == <<build, pc, op, req, result, stages, rpc, genesis, nodeAnswer, first, mutex, signerCalls>>

\* No node is being talked to, no request is watched, no signer is in use.
Unused ==
    /\ nodeAnswer = "none"
    /\ first = [kind |-> "None"]
    /\ mutex = {}
    /\ signerCalls = <<>>

(***************************************************************************)
(* Bounds of the model.                                                    *)
(***************************************************************************)
MaxAmountLen == 2
MaxNotes == 2
MaxTxNotes == 1

(***************************************************************************)
(* Text helpers.                                                           *)
(***************************************************************************)
DigitChars == <<"0", "1", "2", "3", "4", "5", "6", "7", "8", "9">>

IsDigit(c) == \E i \in 1..10 : DigitChars[i] = c

DigitVal(c) == (CHOOSE i \in 1..10 : DigitChars[i] = c) - 1

RECURSIVE StripZeros(_)
StripZeros(ds) ==
    IF Len(ds) > 0 /\ ds[1] = 0 THEN StripZeros(Tail(ds)) ELSE ds

\* Lexicographic "less than" on two digit sequences of the same length.
RECURSIVE LexLess(_, _)
LexLess(a, b) ==
    IF Len(a) = 0 THEN FALSE
    ELSE IF a[1] # b[1] THEN a[1] < b[1]
    ELSE LexLess(Tail(a), Tail(b))

\* The comparison done on the text instead of on the number.
RECURSIVE TextLess(_, _)
TextLess(a, b) ==
    IF Len(b) = 0 THEN FALSE
    ELSE IF Len(a) = 0 THEN TRUE
    ELSE IF a[1] # b[1] THEN a[1] < b[1]
    ELSE TextLess(Tail(a), Tail(b))

\* A u64 value is kept as its decimal digits without leading zeros (zero is
\* the empty sequence), which keeps the full 64-bit range.
U64Less(a, b) == Len(a) < Len(b) \/ (Len(a) = Len(b) /\ LexLess(a, b))

\* u64::MAX = 18446744073709551615
U64MaxDigits == <<1, 8, 4, 4, 6, 7, 4, 4, 0, 7, 3, 7, 0, 9, 5, 5, 1, 6, 1, 5>>

ParseErr == [ok |-> FALSE, v |-> <<>>]

\* str::parse::<u64>(): an optional leading '+', then one or more decimal
\* digits; empty input, a sign alone, any other character, or a value above
\* u64::MAX is an error.
ParseU64(s) ==
    LET body == IF Len(s) > 0 /\ s[1] = "+" THEN Tail(s) ELSE s
    IN  IF Len(body) = 0 THEN ParseErr
        ELSE IF \E i \in 1..Len(body) : ~IsDigit(body[i]) THEN ParseErr
        ELSE LET v == StripZeros([i \in 1..Len(body) |-> DigitVal(body[i])])
             IN  IF U64Less(U64MaxDigits, v) THEN ParseErr
                 ELSE [ok |-> TRUE, v |-> v]

(***************************************************************************)
(* Results and error kinds (MidenExactError).                              *)
(***************************************************************************)
OkResult == [kind |-> "Ok"]

Err(k) == [kind |-> k]

ExactSchemeToString(s) == "exact"

ChainId(ns, ref) == [namespace |-> ns, reference |-> ref]

(***************************************************************************)
(* check_requirements_match                                                *)
(***************************************************************************)
\* The check that parses the amounts before it compares the other fields.
check_amounts_first(payload, requirements) ==
    LET accepted == payload.accepted
        required_amount == ParseU64(requirements.amount)
        accepted_amount == ParseU64(accepted.amount)
    IN  IF ~required_amount.ok \/ ~accepted_amount.ok
            THEN Err("DeserializationError")
        ELSE IF accepted.network # requirements.network
            THEN Err("ChainIdMismatch")
        ELSE IF accepted.pay_to # requirements.pay_to
            THEN Err("RecipientMismatch")
        ELSE IF accepted.asset # requirements.asset
            THEN Err("AssetMismatch")
        ELSE IF U64Less(accepted_amount.v, required_amount.v)
            THEN Err("InsufficientPayment")
        ELSE OkResult

check_requirements_match(payload, requirements) ==
    LET accepted == payload.accepted
        required_amount == ParseU64(requirements.amount)
        accepted_amount == ParseU64(accepted.amount)
    IN  IF ExactSchemeToString(accepted.scheme) # ExactSchemeToString(requirements.scheme)
            THEN Err("SchemeMismatch")
        ELSE IF accepted.network # requirements.network
            THEN Err("ChainIdMismatch")
        ELSE IF accepted.pay_to # requirements.pay_to
            THEN Err("RecipientMismatch")
        ELSE IF accepted.asset # requirements.asset
            THEN Err("AssetMismatch")
        ELSE IF ~required_amount.ok
            THEN Err("DeserializationError")
        ELSE IF ~accepted_amount.ok
            THEN Err("DeserializationError")
        ELSE IF U64Less(accepted_amount.v, required_amount.v)
            THEN Err("InsufficientPayment")
        ELSE OkResult

(***************************************************************************)
(* Accounts, notes and proven transactions (miden_protocol types, kept to  *)
(* the parts the verifier reads).                                          *)
(***************************************************************************)
\* AccountId::new_unchecked([prefix, suffix])
AccountIdNewUnchecked(elements) == [prefix |-> elements[1], suffix |-> elements[2]]

\* MidenAccountAddress::to_account_id: the 15 bytes read as an AccountId, an
\* error when they are no valid AccountId.
to_account_id(addr) ==
    IF addr[1] = 0 THEN [ok |-> FALSE]
    ELSE [ok |-> TRUE, id |-> AccountIdNewUnchecked(addr)]

\* MidenAccountAddress::from_account_id
from_account_id(id) == <<id.prefix, id.suffix>>

\* Display for MidenAccountAddress: "0x" followed by the hex of the bytes.
AddressToString(addr) == [prefix0x |-> TRUE, bytes |-> addr]

FungibleAsset(faucet, amount) == [fungible |-> TRUE, faucet_id |-> faucet, amount |-> amount]

NonFungibleAsset(faucet) == [fungible |-> FALSE, faucet_id |-> faucet]

\* Note::id(): the commitment to the recipient (script, inputs, serial number)
\* and to the assets.
NoteId(note) ==
    [recipient |-> <<note.script, note.inputs, note.serial_num>>, assets |-> note.assets]

FullNote(note) == [variant |-> "Full", note |-> note]

HeaderNote(id) == [variant |-> "Header", id |-> id]

\* OutputNote::id()
OutputNoteId(output_note) ==
    IF output_note.variant = "Full" THEN NoteId(output_note.note) ELSE output_note.id

\* WellKnownNote::P2ID.script_root()
P2IDScriptRoot == "P2ID"

\* The target read with the two input elements in the wrong order.
P2IDTargetSwapped(inputs) == AccountIdNewUnchecked(<<inputs[1], inputs[2]>>)

\* The target a P2ID note encodes in its inputs: [inputs[1], inputs[0]] read
\* with the code's 0-based indices.
P2IDTarget(inputs) == AccountIdNewUnchecked(<<inputs[2], inputs[1]>>)

\* The asset scan with the faucet comparison dropped.
RECURSIVE FungibleScanAnyFaucet(_, _, _)
FungibleScanAnyFaucet(assets, required_faucet, required_amount) ==
    IF Len(assets) = 0 THEN FALSE
    ELSE LET asset == Head(assets)
         IN  IF asset.fungible /\ ~U64Less(asset.amount, required_amount)
             THEN TRUE
             ELSE FungibleScanAnyFaucet(Tail(assets), required_faucet, required_amount)

\* for fungible in note.assets().iter_fungible() { if faucet and amount fit
\* { payment_found = true; break; } }
RECURSIVE FungibleScan(_, _, _)
FungibleScan(assets, required_faucet, required_amount) ==
    IF Len(assets) = 0 THEN FALSE
    ELSE LET asset == Head(assets)
         IN  IF /\ asset.fungible
                /\ asset.faucet_id = required_faucet
                /\ ~U64Less(asset.amount, required_amount)
             THEN TRUE
             ELSE FungibleScan(Tail(assets), required_faucet, required_amount)

(***************************************************************************)
(* privacy::verify_public_note                                             *)
(***************************************************************************)
\* The loop over proven_tx.output_notes(): each `continue` is a step to the
\* next note, the result is payment_found.
RECURSIVE PublicScan(_, _, _, _)
PublicScan(output_notes, required_recipient, required_faucet, required_amount) ==
    IF Len(output_notes) = 0 THEN FALSE
    ELSE LET output_note == Head(output_notes)
             rest == PublicScan(Tail(output_notes), required_recipient,
                                required_faucet, required_amount)
         IN  IF output_note.variant # "Full" THEN rest
             ELSE IF output_note.note.script # P2IDScriptRoot THEN rest
             ELSE IF Len(output_note.note.inputs) < 2 THEN rest
             ELSE IF P2IDTarget(output_note.note.inputs) # required_recipient THEN rest
             ELSE IF FungibleScan(output_note.note.assets, required_faucet,
                                  required_amount)
                  THEN TRUE
             ELSE rest

verify_public_note(proven_tx, required_recipient, required_faucet, required_amount) ==
    IF ~PublicScan(proven_tx.output_notes, required_recipient, required_faucet,
                   required_amount)
    THEN Err("PaymentNotFound")
    ELSE OkResult

(***************************************************************************)
(* privacy::verify_trusted_facilitator_note                                *)
(***************************************************************************)
\* hex::decode of a wire field: an error unless the text is hex.
HexDecode(field) ==
    IF field.hex THEN [ok |-> TRUE, bytes |-> field.bytes] ELSE [ok |-> FALSE]

\* Deserializable::read_from_bytes for the type named by kind.
ReadFromBytes(kind, bytes) ==
    IF bytes.kind = kind THEN [ok |-> TRUE, value |-> bytes.value] ELSE [ok |-> FALSE]

\* The binding check with its comparison dropped: any output note binds.
IdMatchesAny(proven_tx, note_id) == Len(proven_tx.output_notes) > 0

\* proven_tx.output_notes().iter().any(|output_note| output_note.id() == note_id)
IdMatches(proven_tx, note_id) ==
    \E i \in 1..Len(proven_tx.output_notes) :
        OutputNoteId(proven_tx.output_notes[i]) = note_id

verify_trusted_facilitator_note(proven_tx, note_data_hex, required_recipient, required_faucet, required_amount) ==
    LET note_bytes == HexDecode(note_data_hex)
    IN  IF ~note_bytes.ok THEN Err("NoteBindingFailed")
        ELSE
        LET read == ReadFromBytes("Note", note_bytes.bytes)
        IN  IF ~read.ok THEN Err("NoteBindingFailed")
            ELSE
            LET note == read.value
                note_id == NoteId(note)
                id_matches == IdMatches(proven_tx, note_id)
            IN  IF ~id_matches THEN Err("NoteBindingFailed")
                ELSE IF note.script # P2IDScriptRoot THEN Err("NoteBindingFailed")
                ELSE IF Len(note.inputs) < 2 THEN Err("NoteBindingFailed")
                ELSE IF P2IDTarget(note.inputs) # required_recipient
                     THEN Err("RecipientMismatch")
                ELSE IF ~FungibleScan(note.assets, required_faucet, required_amount)
                     THEN Err("PaymentNotFound")
                ELSE OkResult

(***************************************************************************)
(* facilitator: decode_payload_bytes, verify_miden_payment                 *)
(***************************************************************************)
Builds == {"none", "miden-native", "miden-client-native"}

\* The feature test that takes every build for a miden-native build.
HasMidenNativeAlways(b) == TRUE

\* cfg(feature = "miden-native"); miden-client-native includes miden-native.
HasMidenNative(b) == b \in {"miden-native", "miden-client-native"}

\* The decoding with the transaction_inputs field left unexamined.
decode_proven_transaction_only(miden_payload) ==
    LET proven_tx_bytes == HexDecode(miden_payload.proven_transaction)
    IN  IF ~proven_tx_bytes.ok THEN [ok |-> FALSE]
        ELSE [ok |-> TRUE, proven_tx_bytes |-> proven_tx_bytes.bytes,
              tx_inputs_bytes |-> [kind |-> "garbage"]]

\* hex::decode of proven_transaction, then of transaction_inputs.
decode_payload_bytes(miden_payload) ==
    LET proven_tx_bytes == HexDecode(miden_payload.proven_transaction)
        tx_inputs_bytes == HexDecode(miden_payload.transaction_inputs)
    IN  IF ~proven_tx_bytes.ok THEN [ok |-> FALSE]
        ELSE IF ~tx_inputs_bytes.ok THEN [ok |-> FALSE]
        ELSE [ok |-> TRUE, proven_tx_bytes |-> proven_tx_bytes.bytes,
              tx_inputs_bytes |-> tx_inputs_bytes.bytes]

\* TransactionVerifier::new(96)
ProofSecurityLevel == 96

\* The verifier without the security-level comparison.
StarkVerifyAnyLevel(security_level, proven_tx) == proven_tx.proof.sound

\* TransactionVerifier::verify: the proof must check and must reach the
\* verifier's security level.
StarkVerify(security_level, proven_tx) ==
    proven_tx.proof.sound /\ proven_tx.proof.security_level >= security_level

Valid(payer) == [kind |-> "Valid", payer |-> payer]

Outcome(res, trace) == [res |-> res, stages |-> trace]

\* The dispatch made on the presence of note_data instead of on the mode.
NoteInspectByData(miden_payload, proven_tx, required_recipient, required_faucet, required_amount) ==
    IF ~miden_payload.note_data.some
    THEN IF miden_payload.privacy_mode = "Public"
         THEN verify_public_note(proven_tx, required_recipient, required_faucet,
                                 required_amount)
         ELSE Err("DeserializationError")
    ELSE verify_trusted_facilitator_note(proven_tx, miden_payload.note_data.value,
                                         required_recipient, required_faucet,
                                         required_amount)

\* The mode dispatch with the note_data requirement dropped: an absent
\* note_data falls back to the on-chain inspection.
NoteInspectLenient(miden_payload, proven_tx, required_recipient, required_faucet, required_amount) ==
    IF miden_payload.privacy_mode = "Public" \/ ~miden_payload.note_data.some
    THEN verify_public_note(proven_tx, required_recipient, required_faucet,
                            required_amount)
    ELSE verify_trusted_facilitator_note(proven_tx, miden_payload.note_data.value,
                                         required_recipient, required_faucet,
                                         required_amount)

\* match &miden_payload.privacy_mode { Public => ..., TrustedFacilitator => ... }
NoteInspect(miden_payload, proven_tx, required_recipient, required_faucet, required_amount) ==
    IF miden_payload.privacy_mode = "Public"
    THEN verify_public_note(proven_tx, required_recipient, required_faucet,
                            required_amount)
    ELSE IF ~miden_payload.note_data.some THEN Err("DeserializationError")
    ELSE verify_trusted_facilitator_note(proven_tx, miden_payload.note_data.value,
                                         required_recipient, required_faucet,
                                         required_amount)

\* The stub of builds without miden-native.
verify_miden_payment_stub(request) ==
    LET m == check_requirements_match(request.payment_payload,
                                      request.payment_requirements)
    IN  IF m # OkResult THEN Outcome(m, <<"RequirementsMatch">>)
        ELSE Outcome(Err("InvalidProof"), <<"RequirementsMatch", "Unavailable">>)

verify_miden_payment_native(request) ==
    LET payload == request.payment_payload
        requirements == request.payment_requirements
        miden_payload == payload.payload
        m == check_requirements_match(payload, requirements)
        dec == decode_payload_bytes(miden_payload)
        read == ReadFromBytes("ProvenTransaction", dec.proven_tx_bytes)
        proven_tx == read.value
        required_recipient == to_account_id(requirements.pay_to)
        required_faucet == to_account_id(requirements.asset)
        required_amount == ParseU64(requirements.amount)
        inspect == NoteInspect(miden_payload, proven_tx, required_recipient.id,
                               required_faucet.id, required_amount.v)
        payer == AddressToString(from_account_id(proven_tx.account_id))
        s1 == <<"RequirementsMatch">>
        s2 == Append(s1, "HexDecode")
        s3 == Append(s2, "Deserialize")
        s4 == Append(s3, "ProofVerify")
        s5 == Append(s4, "ParseRequirements")
        s6 == Append(s5, "NoteInspect")
    IN  IF m # OkResult THEN Outcome(m, s1)
        ELSE IF ~dec.ok THEN Outcome(Err("DeserializationError"), s2)
        ELSE IF ~read.ok THEN Outcome(Err("DeserializationError"), s3)
        ELSE IF ~StarkVerify(ProofSecurityLevel, proven_tx)
             THEN Outcome(Err("InvalidProof"), s4)
        ELSE IF ~required_recipient.ok THEN Outcome(Err("DeserializationError"), s5)
        ELSE IF ~required_faucet.ok THEN Outcome(Err("DeserializationError"), s5)
        ELSE IF ~required_amount.ok THEN Outcome(Err("DeserializationError"), s5)
        ELSE IF inspect # OkResult THEN Outcome(inspect, s6)
        ELSE Outcome(Valid(payer), Append(s6, "Accept"))

verify_miden_payment(b, request) ==
    IF HasMidenNative(b) THEN verify_miden_payment_native(request)
    ELSE verify_miden_payment_stub(request)

(***************************************************************************)
(* chain::MidenChainProvider                                               *)
(***************************************************************************)
\* ProvenTransaction::id() as the provider formats it.
TransactionId(proven_tx) == [tx_id_of |-> proven_tx]

ProviderOk(tx_id, calls, commitment) ==
    [ok |-> TRUE, tx_id |-> tx_id, calls |-> calls, genesis |-> commitment]

\* A provider error reported as an admission without a transaction id.
ProviderErrSwallowed(cause, calls, commitment) ==
    [ok |-> TRUE, tx_id |-> "", calls |-> calls, genesis |-> commitment]

ProviderErr(cause, calls, commitment) ==
    [ok |-> FALSE, cause |-> cause, calls |-> calls, genesis |-> commitment]

\* What the node answers to the provider's RPCs during one call: the first
\* RPC that fails, if any.  The submit RPC fails when the node cannot be
\* reached ("submit fails") or when the node rejects the transaction, for
\* instance one it has already admitted ("submit rejected").
NodeAnswers == {"get_block_header fails", "set_genesis_commitment fails",
                "submit fails", "submit rejected", "admitted"}

\* The commitment of the node's genesis block.
NodeGenesis == "genesis-commitment"

\* The genesis step left out: nothing is fetched, nothing is registered.
ensure_genesis_commitment_skipped(registered, calls, node) ==
    [ok |-> TRUE, calls |-> calls, genesis |-> registered]

\* ensure_genesis_commitment: fetch the genesis block header, register its
\* commitment on the RPC client; either RPC failing is a ConnectionError.
ensure_genesis_commitment(registered, calls, node) ==
    LET c1 == Append(calls, [call |-> "rpc.get_block_header_by_number"])
        c2 == Append(c1, [call |-> "rpc.set_genesis_commitment"])
    IN  IF node = "get_block_header fails"
            THEN ProviderErr("ConnectionError", c1, registered)
        ELSE IF node = "set_genesis_commitment fails"
            THEN ProviderErr("ConnectionError", c2, registered)
        ELSE [ok |-> TRUE, calls |-> c2, genesis |-> NodeGenesis]

submit_proven_transaction(b, registered, proven_tx_bytes, transaction_inputs_bytes, node) ==
    LET entry == [call |-> "provider.submit_proven_transaction",
                  proven_tx_bytes |-> proven_tx_bytes,
                  transaction_inputs_bytes |-> transaction_inputs_bytes]
        c0 == <<entry>>
        g == ensure_genesis_commitment(registered, c0, node)
        proven_tx == ReadFromBytes("ProvenTransaction", proven_tx_bytes)
        tx_inputs == ReadFromBytes("TransactionInputs", transaction_inputs_bytes)
        c3 == Append(g.calls, [call |-> "rpc.submit_proven_transaction",
                               proven_tx |-> proven_tx.value,
                               tx_inputs |-> tx_inputs.value])
    IN  IF b = "miden-client-native" THEN
            IF ~g.ok THEN g
            ELSE IF ~proven_tx.ok THEN ProviderErr("SubmissionError", g.calls, g.genesis)
            ELSE IF ~tx_inputs.ok THEN ProviderErr("SubmissionError", g.calls, g.genesis)
            ELSE IF node \in {"submit fails", "submit rejected"}
                THEN ProviderErr("SubmissionError", c3, g.genesis)
            ELSE ProviderOk(TransactionId(proven_tx.value), c3, g.genesis)
        ELSE IF b = "miden-native" THEN
            IF ~proven_tx.ok THEN ProviderErr("SubmissionError", c0, registered)
            ELSE ProviderOk(TransactionId(proven_tx.value), c0, registered)
        ELSE ProviderErr("NotImplemented", c0, registered)

\* MidenChainProvider::chain_id() of the facilitator's provider.
ProviderChainId == ChainId("miden", "testnet")

(***************************************************************************)
(* facilitator: settle_miden_payment                                       *)
(***************************************************************************)
\* The verdict check with the error return dropped.
VerifyPassedAlways(verdict) == TRUE

\* verify_miden_payment(request).await? : only a Valid verdict goes on.
VerifyPassed(verdict) == verdict.kind = "Valid"

SettleOutcome(res, trace, calls, commitment) ==
    [res |-> res, stages |-> trace, rpc |-> calls, genesis |-> commitment]

settle_miden_payment(b, registered, request, node) ==
    LET v == verify_miden_payment(b, request)
        miden_payload == request.payment_payload.payload
        dec == decode_payload_bytes(miden_payload)
        s1 == Append(v.stages, "HexDecodeAgain")
        s2 == Append(s1, "Submit")
        sub == submit_proven_transaction(b, registered, dec.proven_tx_bytes,
                                         dec.tx_inputs_bytes, node)
    IN  IF ~VerifyPassed(v.res) THEN SettleOutcome(v.res, v.stages, <<>>, registered)
        ELSE IF ~dec.ok
             THEN SettleOutcome(Err("DeserializationError"), s1, <<>>, registered)
        ELSE IF ~sub.ok
             THEN SettleOutcome([kind |-> "ProviderError", cause |-> sub.cause], s2,
                                sub.calls, sub.genesis)
        ELSE SettleOutcome([kind |-> "Success",
                            payer |-> AddressToString(miden_payload.from),
                            transaction |-> sub.tx_id,
                            network |-> ProviderChainId],
                           s2, sub.calls, sub.genesis)

(***************************************************************************)
(* Values the requests are built from.                                     *)
(***************************************************************************)
\* Decimal amounts of the repository's tests and of the u64 boundary.
Amt999999 == <<"9", "9", "9", "9", "9", "9">>

Amt1000000 == <<"1", "0", "0", "0", "0", "0", "0">>

Amt2000000 == <<"2", "0", "0", "0", "0", "0", "0">>

AmtFraction == <<"1", ".", "5">>

AmtU64Max == <<"1", "8", "4", "4", "6", "7", "4", "4", "0", "7", "3", "7", "0", "9",
               "5", "5", "1", "6", "1", "5">>

AmtU64Over == <<"1", "8", "4", "4", "6", "7", "4", "4", "0", "7", "3", "7", "0", "9",
                "5", "5", "1", "6", "1", "6">>

AmountAlphabet == {"0", "1", "9", "-", "+"}

RECURSIVE StringsUpTo(_, _)
StringsUpTo(alphabet, n) ==
    IF n = 0 THEN {<<>>}
    ELSE LET shorter == StringsUpTo(alphabet, n - 1)
         IN  shorter \cup {Append(s, c) : s \in shorter, c \in alphabet}

AmountSamples ==
    {<<"9">>, <<"1", "0">>, Amt999999, Amt1000000, Amt2000000, AmtFraction,
     <<"-", "1">>, AmtU64Max, AmtU64Over}

AmountStrings == StringsUpTo(AmountAlphabet, MaxAmountLen) \cup AmountSamples

Networks == {ChainId("miden", "testnet"), ChainId("miden", "mainnet")}

\* A MidenAccountAddress is 15 bytes; it is kept as the pair <<prefix, suffix>>
\* of the two field elements an AccountId is made of.  Prefix 0 stands for 15
\* bytes that are no valid AccountId.
AddrA == <<1, 2>>

AddrB == <<2, 1>>

AddrBad == <<0, 1>>

Addresses == {AddrA, AddrB}

Terms(nets, payTos, assets, amounts) ==
    [scheme : {"exact"}, network : nets, pay_to : payTos, asset : assets,
     amount : amounts]

NoResult == [kind |-> "None"]

NoRequest == [kind |-> "None"]

\* The payload of the unit tests' make_payload: its content plays no part in
\* check_requirements_match.
DummyPayload ==
    [from |-> AddrA, proven_transaction |-> [hex |-> FALSE],
     transaction_inputs |-> [hex |-> FALSE], privacy_mode |-> "Public",
     note_data |-> [some |-> FALSE]]

MatchRequests ==
    {[payment_payload |-> [accepted |-> a, payload |-> DummyPayload],
      payment_requirements |-> r] :
        a \in Terms(Networks, Addresses, Addresses, AmountStrings),
        r \in Terms(Networks, Addresses, Addresses, AmountSamples)}

\* Account ids: AccB is AccA with prefix and suffix exchanged.
AccA == AccountIdNewUnchecked(AddrA)

AccB == AccountIdNewUnchecked(AddrB)

FaucetAddrF == <<3, 4>>

FaucetAddrG == <<4, 3>>

FaucetF == AccountIdNewUnchecked(FaucetAddrF)

FaucetG == AccountIdNewUnchecked(FaucetAddrG)

\* u64 amounts 9 and 10 as digits: 9 < 10 as numbers, "9" > "10" as text.
U9 == <<9>>

U10 == <<1, 0>>

RECURSIVE SeqsUpTo(_, _)
SeqsUpTo(S, n) ==
    IF n = 0 THEN {<<>>}
    ELSE LET shorter == SeqsUpTo(S, n - 1)
         IN  shorter \cup {Append(s, x) : s \in shorter, x \in S}

\* Note inputs: none, one, the encoding of AccA (suffix first), the encoding
\* of AccB, and the encoding of AccA followed by a further element.
InputsSamples == {<<>>, <<2>>, <<2, 1>>, <<1, 2>>, <<2, 1, 5>>}

AssetsSamples ==
    {<<>>,
     <<FungibleAsset(FaucetF, U9)>>,
     <<FungibleAsset(FaucetF, U10)>>,
     <<FungibleAsset(FaucetG, U10)>>,
     <<FungibleAsset(FaucetG, U10), FungibleAsset(FaucetF, U10)>>,
     <<NonFungibleAsset(FaucetF)>>}

Scripts == {P2IDScriptRoot, "OTHER"}

NotesWith(serials) ==
    [script : Scripts, inputs : InputsSamples, assets : AssetsSamples,
     serial_num : serials]

\* The same note content under another serial number: another note id.
Reserialized(note) == [note EXCEPT !.serial_num = 3 - note.serial_num]

PublicInputs ==
    [proven_tx : [output_notes :
                    SeqsUpTo({FullNote(n) : n \in NotesWith({1})}
                             \cup {HeaderNote(NoteId(n)) :
                                     n \in {m \in NotesWith({1}) :
                                              /\ m.script = P2IDScriptRoot
                                              /\ m.inputs = <<2, 1>>
                                              /\ m.assets = <<FungibleAsset(FaucetF, U10)>>}},
                             MaxNotes)],
     required_recipient : {AccA, AccB},
     required_faucet : {FaucetF},
     required_amount : {U9, U10}]

\* Wire fields that carry hex text.
NotHex == [hex |-> FALSE]

HexOf(kind, value) == [hex |-> TRUE, bytes |-> [kind |-> kind, value |-> value]]

HexGarbage == [hex |-> TRUE, bytes |-> [kind |-> "garbage"]]

\* Output notes around an off-chain note: the note in full, its header, the
\* header of its re-serialized twin, and an unrelated full note.
OutputsAround(note) ==
    {FullNote(note), HeaderNote(NoteId(note)), HeaderNote(NoteId(Reserialized(note))),
     FullNote([script |-> "OTHER", inputs |-> <<>>, assets |-> <<>>, serial_num |-> 1])}

TrustedInputs ==
    UNION {[proven_tx : [output_notes : SeqsUpTo(OutputsAround(n), MaxNotes)],
            note_data_hex : {NotHex, HexGarbage, HexOf("Note", n)},
            required_recipient : {AccA, AccB},
            required_faucet : {FaucetF},
            required_amount : {U9, U10}] : n \in NotesWith({1})}

\* The requests of the facilitator: terms that match or differ in one field,
\* and payloads around one note each.
GoodTerms ==
    [scheme |-> "exact", network |-> ChainId("miden", "testnet"), pay_to |-> AddrA,
     asset |-> FaucetAddrF, amount |-> <<"1", "0">>]

TermPairs ==
    {<<GoodTerms, GoodTerms>>,
     <<[GoodTerms EXCEPT !.amount = <<"9">>], GoodTerms>>,
     <<[GoodTerms EXCEPT !.pay_to = AddrB], GoodTerms>>,
     <<GoodTerms, [GoodTerms EXCEPT !.amount = <<"9">>]>>,
     <<[GoodTerms EXCEPT !.pay_to = AddrBad], [GoodTerms EXCEPT !.pay_to = AddrBad]>>,
     <<[GoodTerms EXCEPT !.asset = AddrBad], [GoodTerms EXCEPT !.asset = AddrBad]>>}

GoodNote ==
    [script |-> P2IDScriptRoot, inputs |-> <<2, 1>>,
     assets |-> <<FungibleAsset(FaucetF, U10)>>, serial_num |-> 1]

MainNotes ==
    {GoodNote,
     [GoodNote EXCEPT !.script = "OTHER"],
     [GoodNote EXCEPT !.inputs = <<1, 2>>],
     [GoodNote EXCEPT !.assets = <<FungibleAsset(FaucetG, U10)>>]}

\* Output notes of a transaction around a note: the note in full, its header,
\* and the header of its re-serialized twin.
TxNotesAround(note) ==
    {FullNote(note), HeaderNote(NoteId(note)), HeaderNote(NoteId(Reserialized(note)))}

\* Proofs: one that does not check, one that checks at 95 bits, one at 96.
Proofs ==
    {[sound |-> FALSE, security_level |-> 96], [sound |-> TRUE, security_level |-> 95],
     [sound |-> TRUE, security_level |-> 96]}

Some(x) == [some |-> TRUE, value |-> x]

None == [some |-> FALSE]

\* The paying account of every proven transaction is AccB; the payload's
\* `from` is that account or another one.
PayloadsAround(note) ==
    [from : {AddrA, AddrB},
     proven_transaction :
        {NotHex, HexGarbage}
        \cup {HexOf("ProvenTransaction", tx) :
                tx \in [account_id : {AccB},
                        output_notes : SeqsUpTo(TxNotesAround(note), MaxTxNotes),
                        proof : Proofs]},
     transaction_inputs : {NotHex, HexGarbage, HexOf("TransactionInputs", "inputs")},
     privacy_mode : {"Public", "TrustedFacilitator"},
     note_data : {None, Some(NotHex), Some(HexOf("Note", note)),
                  Some(HexOf("Note", Reserialized(note)))}]

Requests ==
    {[payment_payload |-> [accepted |-> terms[1], payload |-> p],
      payment_requirements |-> terms[2]] :
        terms \in TermPairs, p \in UNION {PayloadsAround(n) : n \in MainNotes}}

(***************************************************************************)
(* Specification of check_requirements_match alone: the request is drawn   *)
(* from MatchRequests and the function is applied to it.                   *)
(***************************************************************************)
InitMatch ==
    /\ build = "miden-native"
    /\ pc = "idle"
    /\ op = "none"
    /\ req \in MatchRequests
    /\ result = NoResult
    /\ stages = <<>>
    /\ rpc = <<>>
    /\ genesis = "unset"
    /\ Unused

CallMatch ==
    /\ pc = "idle"
    /\ pc' = "done"
    /\ op' = "check_requirements_match"
    /\ result' = check_requirements_match(req.payment_payload, req.payment_requirements)
    /\ UNCHANGED <<build, req, stages, rpc, genesis, nodeAnswer, first, mutex, signerCalls>>

NextMatch == CallMatch

SpecMatch == InitMatch /\ [][NextMatch]_vars

(***************************************************************************)
(* Specifications of the two note inspections alone.                       *)
(***************************************************************************)
InitPublic ==
    /\ build = "miden-native"
    /\ pc = "idle"
    /\ op = "none"
    /\ req \in PublicInputs
    /\ result = NoResult
    /\ stages = <<>>
    /\ rpc = <<>>
    /\ genesis = "unset"
    /\ Unused

CallPublic ==
    /\ pc = "idle"
    /\ pc' = "done"
    /\ op' = "verify_public_note"
    /\ result' = verify_public_note(req.proven_tx, req.required_recipient,
                                    req.required_faucet, req.required_amount)
    /\ UNCHANGED <<build, req, stages, rpc, genesis, nodeAnswer, first, mutex, signerCalls>>

NextPublic == CallPublic

SpecPublic == InitPublic /\ [][NextPublic]_vars

InitTrusted ==
    /\ build = "miden-native"
    /\ pc = "idle"
    /\ op = "none"
    /\ req \in TrustedInputs
    /\ result = NoResult
    /\ stages = <<>>
    /\ rpc = <<>>
    /\ genesis = "unset"
    /\ Unused

CallTrusted ==
    /\ pc = "idle"
    /\ pc' = "done"
    /\ op' = "verify_trusted_facilitator_note"
    /\ result' = verify_trusted_facilitator_note(req.proven_tx, req.note_data_hex,
                                                 req.required_recipient,
                                                 req.required_faucet, req.required_amount)
    /\ UNCHANGED <<build, req, stages, rpc, genesis, nodeAnswer, first, mutex, signerCalls>>

NextTrusted == CallTrusted

SpecTrusted == InitTrusted /\ [][NextTrusted]_vars

(***************************************************************************)
(* The facilitator: one verify or settle call at a time, answered by       *)
(* Respond.  Spec is the crate built with miden-native (with or without    *)
(* miden-client-native), SpecStub the crate built without it.              *)
(***************************************************************************)
InitBuild(builds) ==
    /\ build \in builds
    /\ pc = "idle"
    /\ op = "none"
    /\ req = NoRequest
    /\ result = NoResult
    /\ stages = <<>>
    /\ rpc = <<>>
    /\ genesis = "unset"
    /\ Unused

\* A verify handler that answers from the provider's connection state: it
\* fails until a genesis commitment has been registered.
VerifyThroughProvider(r) ==
    /\ pc = "idle"
    /\ pc' = "done"
    /\ op' = "verify"
    /\ req' = r
    /\ LET o == verify_miden_payment(build, r)
           res == IF genesis = "unset" THEN [kind |-> "ProviderError"] ELSE o.res
       IN  /\ result' = res
           /\ stages' = o.stages
           /\ first' = IF first.kind = "Watch" /\ first.req = r
                            THEN [kind |-> "Seen", req |-> r, res |-> res,
                                  others |-> FALSE, again |-> FALSE]
                        ELSE IF first.kind = "Seen"
                            THEN [first EXCEPT !.again = (@ \/ first.req = r),
                                               !.others = (@ \/ first.req # r)]
                        ELSE first
    /\ rpc' = <<>>
    /\ nodeAnswer' = "none"
    /\ UNCHANGED <<build, genesis, mutex, signerCalls>>

\* X402SchemeFacilitator::verify: the verdict is a function of the request;
\* `first` keeps the verdict of the first call on the watched request.
Verify(r) ==
    /\ pc = "idle"
    /\ pc' = "done"
    /\ op' = "verify"
    /\ req' = r
    /\ LET o == verify_miden_payment(build, r)
       IN  /\ result' = o.res
           /\ stages' = o.stages
           /\ first' = IF first.kind = "Watch" /\ first.req = r
                            THEN [kind |-> "Seen", req |-> r, res |-> o.res,
                                  others |-> FALSE, again |-> FALSE]
                        ELSE IF first.kind = "Seen"
                            THEN [first EXCEPT !.again = (@ \/ first.req = r),
                                               !.others = (@ \/ first.req # r)]
                        ELSE first
    /\ rpc' = <<>>
    /\ nodeAnswer' = "none"
    /\ UNCHANGED <<build, genesis, mutex, signerCalls>>

Settle(r, n) ==
    /\ pc = "idle"
    /\ pc' = "done"
    /\ op' = "settle"
    /\ req' = r
    /\ LET o == settle_miden_payment(build, genesis, r, n)
       IN  /\ result' = o.res
           /\ stages' = o.stages
           /\ rpc' = o.rpc
           /\ genesis' = o.genesis
           \* the node answers only when the provider makes an RPC
           /\ nodeAnswer' = IF \E i \in 1..Len(o.rpc) :
                                   o.rpc[i].call = "rpc.get_block_header_by_number"
                             THEN n ELSE "none"
    /\ first' = IF first.kind = "Seen" THEN [first EXCEPT !.others = TRUE] ELSE first
    /\ UNCHANGED <<build, mutex, signerCalls>>

Respond ==
    /\ pc = "done"
    /\ pc' = "idle"
    /\ op' = "none"
    /\ req' = NoRequest
    /\ result' = NoResult
    /\ stages' = <<>>
    /\ rpc' = <<>>
    /\ nodeAnswer' = "none"
    /\ UNCHANGED <<build, genesis, first, mutex, signerCalls>>

\* A request arrives only while no call is in progress.
Next ==
    \/ pc = "idle" /\ \E r \in Requests : Verify(r)
    \/ pc = "idle" /\ \E r \in Requests, n \in NodeAnswers : Settle(r, n)
    \/ Respond

Init == InitBuild({"miden-native", "miden-client-native"})

Spec == Init /\ [][Next]_vars

InitStub == InitBuild({"none"})

SpecStub == InitStub /\ [][Next]_vars

(***************************************************************************)
(* The facilitator with one request watched: the verdict of the first      *)
(* verify call on it is kept in `first` while other verify and settle      *)
(* calls are handled.                                                      *)
(***************************************************************************)
\* Requests with a well-formed payload of the paying account: the terms
\* match or differ in pay_to, the proof checks at level 96.
StatelessRequests ==
    {r \in Requests :
        /\ <<r.payment_payload.accepted, r.payment_requirements>>
              \in {<<GoodTerms, GoodTerms>>,
                    <<[GoodTerms EXCEPT !.pay_to = AddrB], GoodTerms>>}
        /\ LET p == r.payment_payload.payload
           IN  /\ p.from = AddrB
               /\ p.transaction_inputs = HexOf("TransactionInputs", "inputs")
               /\ p.note_data \in {None, Some(HexOf("Note", GoodNote))}
               /\ p.proven_transaction.hex
               /\ p.proven_transaction.bytes.kind = "ProvenTransaction" =>
                     /\ p.proven_transaction.bytes.value.proof
                           = [sound |-> TRUE, security_level |-> 96]
                     /\ \A i \in 1..Len(p.proven_transaction.bytes.value.output_notes) :
                           NoteId(GoodNote)
                             = OutputNoteId(p.proven_transaction.bytes.value.output_notes[i])}

\* The watched requests: the transaction holds the note in full or as a
\* header, or holds no note.
WatchedRequests ==
    {r \in StatelessRequests :
        /\ r.payment_payload.accepted = GoodTerms
        /\ r.payment_payload.payload.note_data.some
        /\ r.payment_payload.payload.proven_transaction.bytes.kind = "ProvenTransaction"
        /\ Len(r.payment_payload.payload.proven_transaction.bytes.value.output_notes) <= 1}

InitStateless ==
    /\ build \in Builds
    /\ pc = "idle"
    /\ op = "none"
    /\ req = NoRequest
    /\ result = NoResult
    /\ stages = <<>>
    /\ rpc = <<>>
    /\ genesis = "unset"
    /\ nodeAnswer = "none"
    /\ first \in {[kind |-> "Watch", req |-> r] : r \in WatchedRequests}
    /\ mutex = {}
    /\ signerCalls = <<>>

NextStateless ==
    \/ pc = "idle" /\ \E r \in StatelessRequests : Verify(r)
    \/ pc = "idle" /\ \E r \in StatelessRequests, n \in NodeAnswers : Settle(r, n)
    \/ Respond

SpecStateless == InitStateless /\ [][NextStateless]_vars

(***************************************************************************)
(* chain::MidenAccountAddress as text: from_str and Display.               *)
(***************************************************************************)
\* The longest variable head of an address text.
MaxHexLen == 2

LowerHex == <<"0", "1", "2", "3", "4", "5", "6", "7", "8", "9",
              "a", "b", "c", "d", "e", "f">>

UpperHex == <<"0", "1", "2", "3", "4", "5", "6", "7", "8", "9",
              "A", "B", "C", "D", "E", "F">>

\* The value of a hex digit of either case, -1 for any other character.
HexValue(c) ==
    IF \E i \in 1..16 : LowerHex[i] = c
        THEN (CHOOSE i \in 1..16 : LowerHex[i] = c) - 1
    ELSE IF \E i \in 1..16 : UpperHex[i] = c
        THEN (CHOOSE i \in 1..16 : UpperHex[i] = c) - 1
    ELSE -1

\* hex::decode: an even number of hex digits of either case.
hex_decode(s) ==
    IF Len(s) % 2 = 1 THEN [ok |-> FALSE, error |-> "InvalidHex"]
    ELSE IF \E i \in 1..Len(s) : HexValue(s[i]) < 0
        THEN [ok |-> FALSE, error |-> "InvalidHex"]
    ELSE [ok |-> TRUE,
          bytes |-> [i \in 1..(Len(s) \div 2) |->
                        16 * HexValue(s[2 * i - 1]) + HexValue(s[2 * i])]]

\* hex::encode: two lower-case digits per byte.
hex_encode(bytes) ==
    [i \in 1..(2 * Len(bytes)) |->
        IF i % 2 = 1 THEN LowerHex[(bytes[(i + 1) \div 2] \div 16) + 1]
        ELSE LowerHex[(bytes[i \div 2] % 16) + 1]]

\* The text taken as it is, prefix included.
strip_prefix_kept(s) == s

\* s.strip_prefix("0x").unwrap_or(s)
strip_prefix(s) ==
    IF Len(s) >= 2 /\ s[1] = "0" /\ s[2] = "x" THEN SubSeq(s, 3, Len(s)) ELSE s

MIDEN_ACCOUNT_ID_BYTE_LEN == 15

\* impl FromStr for MidenAccountAddress
from_str(s) ==
    LET decoded == hex_decode(strip_prefix(s))
    IN  IF ~decoded.ok THEN decoded
        ELSE IF Len(decoded.bytes) # MIDEN_ACCOUNT_ID_BYTE_LEN
            THEN [ok |-> FALSE, error |-> "InvalidLength"]
        ELSE [ok |-> TRUE, address |-> decoded.bytes]

\* impl Display for MidenAccountAddress
fmt(address) == <<"0", "x">> \o hex_encode(address)

\* "abcdef1234567890abcdef12345678" of test_miden_address_roundtrip.
HexFixture ==
    <<"a", "b", "c", "d", "e", "f", "1", "2", "3", "4", "5", "6", "7", "8", "9", "0",
      "a", "b", "c", "d", "e", "f", "1", "2", "3", "4", "5", "6", "7", "8">>

AddressAlphabet == {"0", "9", "a", "A", "F", "g", "x"}

\* Address texts: the fixture with its first characters replaced, cut at 28,
\* 29 or 30 characters or extended to 32, with or without a prefix.
AddressTexts ==
    {prefix \o head \o SubSeq(HexFixture, Len(head) + 1, cut) \o extra :
        prefix \in {<<>>, <<"0", "x">>, <<"0", "X">>},
        head \in StringsUpTo(AddressAlphabet, MaxHexLen),
        cut \in {28, 29, 30},
        extra \in {<<>>, <<"0", "0">>}}

ByteSamples == {0, 10, 171, 255}

\* Addresses: the bytes of the fixture with the first two replaced.
AddressValues ==
    {[i \in 1..MIDEN_ACCOUNT_ID_BYTE_LEN |->
        IF i = 1 THEN b1 ELSE IF i = 2 THEN b2 ELSE hex_decode(HexFixture).bytes[i]] :
        b1 \in ByteSamples, b2 \in ByteSamples}

AddressInputs ==
    {[kind |-> "text", text |-> s] : s \in AddressTexts}
    \cup {[kind |-> "address", address |-> a] : a \in AddressValues}

InitAddress ==
    /\ build = "miden-native"
    /\ pc = "idle"
    /\ op = "none"
    /\ req \in AddressInputs
    /\ result = NoResult
    /\ stages = <<>>
    /\ rpc = <<>>
    /\ genesis = "unset"
    /\ Unused

\* s.parse::<MidenAccountAddress>() followed by to_string() of what it gave.
ParseThenFormat ==
    /\ pc = "idle"
    /\ req.kind = "text"
    /\ pc' = "done"
    /\ op' = "from_str"
    /\ LET parsed == from_str(req.text)
       IN  result' = IF parsed.ok
                     THEN [kind |-> "Parsed", address |-> parsed.address,
                           text |-> fmt(parsed.address)]
                     ELSE [kind |-> parsed.error]
    /\ UNCHANGED <<build, req, stages, rpc, genesis, nodeAnswer, first, mutex, signerCalls>>

\* address.to_string() followed by parse() of the text.
FormatThenParse ==
    /\ pc = "idle"
    /\ req.kind = "address"
    /\ pc' = "done"
    /\ op' = "fmt"
    /\ LET text == fmt(req.address)
           parsed == from_str(text)
       IN  result' = IF parsed.ok
                     THEN [kind |-> "Parsed", address |-> parsed.address, text |-> text]
                     ELSE [kind |-> parsed.error]
    /\ UNCHANGED <<build, req, stages, rpc, genesis, nodeAnswer, first, mutex, signerCalls>>

NextAddress == ParseThenFormat \/ FormatThenParse

SpecAddress == InitAddress /\ [][NextAddress]_vars

(***************************************************************************)
(* client: V2MidenExactClient::accept                                      *)
(***************************************************************************)
\* The longest accepts list of a PaymentRequired.
MaxAccepts == 2

\* types::PaymentRequirements::try_from(original_requirements_json): the
\* entry must be an object with scheme "exact", a CAIP-2 network, a string
\* amount and two account addresses.
PaymentRequirementsTryFrom(entry) ==
    IF entry.json # "object" THEN [ok |-> FALSE]
    ELSE IF entry.scheme # "exact" THEN [ok |-> FALSE]
    ELSE IF ~entry.network.wellformed THEN [ok |-> FALSE]
    ELSE IF entry.amount.type # "string" THEN [ok |-> FALSE]
    ELSE IF ~from_str(entry.payTo).ok THEN [ok |-> FALSE]
    ELSE IF ~from_str(entry.asset).ok THEN [ok |-> FALSE]
    ELSE [ok |-> TRUE,
          requirements |->
            [scheme |-> "exact",
             network |-> ChainId(entry.network.namespace, entry.network.reference),
             amount |-> entry.amount.text,
             pay_to |-> from_str(entry.payTo).address,
             asset |-> from_str(entry.asset).address]]

\* MidenChainReference::try_from(&ChainId): the namespace must be "miden".
MidenChainReferenceTryFrom(chain_id) ==
    IF chain_id.namespace # "miden" THEN [ok |-> FALSE]
    ELSE [ok |-> TRUE, reference |-> chain_id.reference]

\* MidenChainReference::try_from(&str): "testnet" or "mainnet".
MidenChainReferenceTryFromStr(value) ==
    IF value \in {"testnet", "mainnet"} THEN [ok |-> TRUE, reference |-> value]
    ELSE [ok |-> FALSE]

\* The closure of filter_map: the candidate of one accepts entry, if any.
candidate(privacy_mode, resource, original_requirements_json) ==
    LET parsed == PaymentRequirementsTryFrom(original_requirements_json)
        requirements == parsed.requirements
        chain_reference == MidenChainReferenceTryFrom(requirements.network)
        amount_u64 == ParseU64(requirements.amount)
    IN  IF ~parsed.ok THEN None
        ELSE IF ~chain_reference.ok THEN None
        ELSE IF ~amount_u64.ok THEN None
        ELSE Some([chain_id |-> requirements.network,
                   asset |-> fmt(requirements.asset),
                   amount |-> amount_u64.v,
                   scheme |-> "exact",
                   x402_version |-> 2,
                   pay_to |-> fmt(requirements.pay_to),
                   signer |-> [resource_info |-> Some(resource),
                               privacy_mode |-> privacy_mode,
                               requirements |-> requirements,
                               requirements_json |-> original_requirements_json]])

\* The entries collected up to the first one that gives no candidate.
RECURSIVE filter_map_until_none(_, _, _)
filter_map_until_none(privacy_mode, resource, accepts) ==
    IF Len(accepts) = 0 THEN <<>>
    ELSE LET c == candidate(privacy_mode, resource, Head(accepts))
         IN  IF c.some
             THEN <<c.value>> \o filter_map_until_none(privacy_mode, resource, Tail(accepts))
             ELSE <<>>

\* accepts.iter().filter_map(...).collect()
RECURSIVE filter_map(_, _, _)
filter_map(privacy_mode, resource, accepts) ==
    IF Len(accepts) = 0 THEN <<>>
    ELSE LET c == candidate(privacy_mode, resource, Head(accepts))
             rest == filter_map(privacy_mode, resource, Tail(accepts))
         IN  IF c.some THEN <<c.value>> \o rest ELSE rest

\* V2MidenExactClient::accept
accept(privacy_mode, payment_required) ==
    IF payment_required.version = "V1" THEN <<>>
    ELSE filter_map(privacy_mode, payment_required.resource, payment_required.accepts)

\* A second address text: the fixture in upper case, without prefix.
HexFixtureUpper == [i \in 1..30 |-> UpperHex[HexValue(HexFixture[i]) + 1]]

GoodEntry ==
    [json |-> "object", scheme |-> "exact",
     network |-> [wellformed |-> TRUE, namespace |-> "miden", reference |-> "testnet"],
     amount |-> [type |-> "string", text |-> <<"1", "0">>],
     payTo |-> <<"0", "x">> \o HexFixture, asset |-> HexFixtureUpper]

\* Entries of an accepts list: two a Miden client recognises, one of a Miden
\* network that is neither testnet nor mainnet, and one for each reason an
\* entry is skipped.
EntrySamples ==
    {GoodEntry,
     [GoodEntry EXCEPT !.network.reference = "mainnet",
                       !.amount.text = <<"+", "9">>, !.payTo = HexFixtureUpper],
     [GoodEntry EXCEPT !.network.namespace = "eip155"],
     [GoodEntry EXCEPT !.network.reference = "devnet"],
     [GoodEntry EXCEPT !.network = [wellformed |-> FALSE]],
     [GoodEntry EXCEPT !.amount.text = AmtFraction],
     [GoodEntry EXCEPT !.amount = [type |-> "number"]],
     [GoodEntry EXCEPT !.scheme = "upto"],
     [GoodEntry EXCEPT !.payTo = SubSeq(HexFixture, 1, 28)],
     [json |-> "garbage"]}

AcceptInputs ==
    [privacy_mode : {"Public", "TrustedFacilitator"},
     payment_required : [version : {"V1", "V2"}, resource : {"resource"},
                         accepts : SeqsUpTo(EntrySamples, MaxAccepts)]]

InitAccept ==
    /\ build = "miden-native"
    /\ pc = "idle"
    /\ op = "none"
    /\ req \in AcceptInputs
    /\ result = NoResult
    /\ stages = <<>>
    /\ rpc = <<>>
    /\ genesis = "unset"
    /\ Unused

CallAccept ==
    /\ pc = "idle"
    /\ pc' = "done"
    /\ op' = "accept"
    /\ result' = [kind |-> "Candidates",
                  list |-> accept(req.privacy_mode, req.payment_required)]
    /\ UNCHANGED <<build, req, stages, rpc, genesis, nodeAnswer, first, mutex, signerCalls>>

NextAccept == CallAccept

SpecAccept == InitAccept /\ [][NextAccept]_vars

(***************************************************************************)
(* client: sign_payment and create_and_prove_p2id_with_privacy.  Callers   *)
(* 1..MaxSigners each make one sign_payment call; the MidenClientSigner    *)
(* calls share one miden_client::Client behind the mutex.                  *)
(***************************************************************************)
MaxSigners == 2

Callers == 1..MaxSigners

\* let note_type = match privacy_mode { Public => ..., TrustedFacilitator => ... }
NoteTypeAlwaysPublic(privacy_mode) == "Public"

NoteTypeFor(privacy_mode) ==
    IF privacy_mode = "Public" THEN "Public" ELSE "Private"

\* The P2ID note build_pay_to_id describes for the payment.
PaymentNote(note_type) ==
    [script |-> P2IDScriptRoot, inputs |-> <<2, 1>>,
     assets |-> <<FungibleAsset(FaucetF, U10)>>, serial_num |-> 1,
     note_type |-> note_type]

\* What execute_transaction can give as created_notes.
CreatedNotes(note_type) ==
    {<<FullNote(PaymentNote(note_type))>>,
     <<HeaderNote(NoteId(PaymentNote(note_type)))>>,
     <<HeaderNote(NoteId(PaymentNote(note_type))), FullNote(PaymentNote(note_type))>>,
     <<>>}

\* The prover's output notes: a full private note is reduced to its header.
Shrink(created_notes) ==
    [i \in 1..Len(created_notes) |->
        IF created_notes[i].variant = "Full" /\ created_notes[i].note.note_type = "Private"
        THEN HeaderNote(NoteId(created_notes[i].note))
        ELSE created_notes[i]]

\* created_notes().iter().find_map(|on| if let OutputNote::Full(note) ...)
RECURSIVE full_note(_)
full_note(created_notes) ==
    IF Len(created_notes) = 0 THEN None
    ELSE IF Head(created_notes).variant = "Full" THEN Some(Head(created_notes).note)
    ELSE full_note(Tail(created_notes))

\* The note data when a missing full note is let through.
note_data_unchecked(privacy_mode, created_notes) ==
    IF privacy_mode = "TrustedFacilitator" /\ full_note(created_notes).some
    THEN [ok |-> TRUE, value |-> Some(HexOf("Note", full_note(created_notes).value))]
    ELSE [ok |-> TRUE, value |-> None]

\* let note_data = if matches!(privacy_mode, TrustedFacilitator) {..} else { None }
note_data(privacy_mode, created_notes) ==
    IF privacy_mode = "TrustedFacilitator"
    THEN IF full_note(created_notes).some
         THEN [ok |-> TRUE, value |-> Some(HexOf("Note", full_note(created_notes).value))]
         ELSE [ok |-> FALSE]
    ELSE [ok |-> TRUE, value |-> None]

\* The guard kept alive over the proving.
keep(client_guard) == {client_guard}

\* drop(client_guard): the mutex has no holder again.
drop(client_guard) == {}

SigningError == [kind |-> "SigningError"]

\* The facilitator's variables, which the signer leaves alone.
facilitatorVars == <<build, pc, op, req, result, stages, rpc, genesis, nodeAnswer, first>>

SignerKinds == {"MidenClientSigner", "default"}

\* The calls made.  A MidenClientSigner with a bad account id text fails in
\* Begin (AccountId::from_hex); the texts that reach the parse of
\* sign_payment unprefixed or empty are those of the other signers.
SignerCalls ==
    {call \in [pc : {"start"}, kind : SignerKinds,
               privacy_mode : {"Public", "TrustedFacilitator"},
               amount : {<<"1", "0">>, AmtFraction},
               account_id : {<<"0", "x">> \o HexFixture, HexFixture, <<"0", "x">>},
               note_type : {"none"}, created_notes : {<<>>}, note_data : {None},
               tx : {None}, events : {<<>>}, result : {NoResult}] :
        call.account_id # <<"0", "x">> \o HexFixture =>
            /\ call.kind = "default"
            /\ call.privacy_mode = "Public"
            /\ call.amount = <<"1", "0">>}

InitSigner ==
    /\ build = "miden-client-native"
    /\ pc = "idle"
    /\ op = "none"
    /\ req = NoRequest
    /\ result = NoResult
    /\ stages = <<>>
    /\ rpc = <<>>
    /\ genesis = "unset"
    /\ nodeAnswer = "none"
    /\ first = [kind |-> "None"]
    /\ mutex = {}
    /\ signerCalls \in [Callers -> SignerCalls]

\* The call of caller c returns an error; a guard it holds is dropped.
Fail(c, error) ==
    /\ signerCalls' = [signerCalls EXCEPT ![c].pc = "done", ![c].result = error]
    /\ mutex' = mutex \ {c}

\* sign_payment up to the signer call, and the part of
\* create_and_prove_p2id_with_privacy that precedes client.lock().
Begin(c) ==
    /\ signerCalls[c].pc = "start"
    /\ IF ~ParseU64(signerCalls[c].amount).ok THEN Fail(c, [kind |-> "ParseError"])
       ELSE IF signerCalls[c].kind = "default" THEN
            IF signerCalls[c].privacy_mode = "Public"
            THEN /\ signerCalls' = [signerCalls EXCEPT ![c].pc = "delegate"]
                 /\ UNCHANGED mutex
            ELSE Fail(c, SigningError)
       ELSE \E ids_ok \in BOOLEAN :
              IF ids_ok
              THEN /\ signerCalls' =
                        [signerCalls EXCEPT
                            ![c].pc = "wait_lock",
                            ![c].note_type = NoteTypeFor(signerCalls[c].privacy_mode)]
                   /\ UNCHANGED mutex
              ELSE Fail(c, SigningError)
    /\ UNCHANGED facilitatorVars

\* let mut client_guard = self.client.lock().await
Lock(c) ==
    /\ signerCalls[c].pc = "wait_lock"
    /\ mutex = {}
    /\ mutex' = {c}
    /\ signerCalls' = [signerCalls EXCEPT ![c].pc = "locked",
                                          ![c].events = Append(@, "lock")]
    /\ UNCHANGED facilitatorVars

\* TransactionRequestBuilder::new().build_pay_to_id(.., client_guard.rng())
BuildRequest(c) ==
    /\ signerCalls[c].pc = "locked"
    /\ \E ok \in BOOLEAN :
          IF ok
          THEN /\ signerCalls' = [signerCalls EXCEPT ![c].pc = "built",
                                                     ![c].events = Append(@, "build")]
               /\ UNCHANGED mutex
          ELSE Fail(c, SigningError)
    /\ UNCHANGED facilitatorVars

\* client_guard.execute_transaction(sender, tx_request).await
Execute(c) ==
    /\ signerCalls[c].pc = "built"
    /\ \/ Fail(c, SigningError)
       \/ \E notes \in CreatedNotes(signerCalls[c].note_type) :
             /\ signerCalls' = [signerCalls EXCEPT ![c].pc = "executed",
                                                   ![c].created_notes = notes,
                                                   ![c].events = Append(@, "execute")]
             /\ UNCHANGED mutex
    /\ UNCHANGED facilitatorVars

\* Steps 5 to 7 up to the await of prove: capture the full note in
\* TrustedFacilitator mode, take the transaction inputs and the prover,
\* drop the guard, invoke the prover.
Capture(c) ==
    /\ signerCalls[c].pc = "executed"
    /\ LET captured == note_data(signerCalls[c].privacy_mode, signerCalls[c].created_notes)
       IN  IF ~captured.ok THEN Fail(c, SigningError)
           ELSE /\ signerCalls' =
                     [signerCalls EXCEPT
                         ![c].pc = "proving",
                         ![c].note_data = captured.value,
                         ![c].events = @ \o (IF captured.value.some THEN <<"capture">>
                                             ELSE <<>>)
                                         \o <<"drop", "prove">>]
                /\ mutex' = drop(c)
    /\ UNCHANGED facilitatorVars

\* prover.prove(tx_result.into()).await returns; the transaction is
\* serialized.
Prove(c) ==
    /\ signerCalls[c].pc = "proving"
    /\ \/ Fail(c, SigningError)
       \/ /\ signerCalls' =
               [signerCalls EXCEPT
                   ![c].pc = "returned",
                   ![c].tx = Some(HexOf("ProvenTransaction",
                                        [account_id |-> AccB,
                                         output_notes |-> Shrink(signerCalls[c].created_notes),
                                         proof |-> [sound |-> TRUE,
                                                    security_level |-> 96]])),
                   ![c].events = Append(@, "proved")]
          /\ UNCHANGED mutex
    /\ UNCHANGED facilitatorVars

\* The default create_and_prove_p2id_with_privacy in Public mode: the
\* signer's own create_and_prove_p2id, whose error is passed on as it is,
\* with None as note data.
Delegate(c) ==
    /\ signerCalls[c].pc = "delegate"
    /\ \/ \E error \in {SigningError, [kind |-> "ParseError"]} : Fail(c, error)
       \/ /\ signerCalls' =
               [signerCalls EXCEPT
                   ![c].pc = "returned",
                   ![c].tx = Some(HexOf("ProvenTransaction", "signer's own")),
                   ![c].note_data = None]
          /\ UNCHANGED mutex
    /\ UNCHANGED facilitatorVars

\* sign_payment after the signer call: assemble the MidenExactPayload.
Assemble(c) ==
    /\ signerCalls[c].pc = "returned"
    /\ LET from == from_str(signerCalls[c].account_id)
       IN  IF ~from.ok THEN Fail(c, SigningError)
           ELSE /\ signerCalls' =
                     [signerCalls EXCEPT
                         ![c].pc = "done",
                         ![c].result =
                            [kind |-> "Payload",
                             payload |-> [from |-> from.address,
                                          proven_transaction |-> signerCalls[c].tx.value,
                                          privacy_mode |-> signerCalls[c].privacy_mode,
                                          note_data |-> signerCalls[c].note_data]]]
                /\ UNCHANGED mutex
    /\ UNCHANGED facilitatorVars

NextSigner ==
    \E c \in Callers :
        \/ Begin(c)
        \/ Lock(c)
        \/ BuildRequest(c)
        \/ Execute(c)
        \/ Capture(c)
        \/ Prove(c)
        \/ Delegate(c)
        \/ Assemble(c)

SpecSigner == InitSigner /\ [][NextSigner]_vars

(***************************************************************************)
(* chain/types.rs: MidenTokenDeployment::parse.  The u64 arithmetic is     *)
(* done on sequences of bytes, least significant first, so that a product  *)
(* keeps all its bits and wrapping is the cut to eight bytes.              *)
(***************************************************************************)
\* The longest fractional part drawn freely.
MaxFracLen == 2

\* The bytes of a number without its high zero bytes.
Norm(x) ==
    LET used == {i \in 1..Len(x) : x[i] # 0}
    IN  IF used = {} THEN <<>>
        ELSE SubSeq(x, 1, CHOOSE m \in used : \A i \in used : i <= m)

\* a * k + c for a byte sequence a and small k and c.
MulAdd(a, k, c) ==
    LET body(x) ==
            LET carry[i \in 0..Len(x)] ==
                    IF i = 0 THEN c ELSE (x[i] * k + carry[i - 1]) \div 256
            IN  Norm([i \in 1..(Len(x) + 1) |->
                        IF i <= Len(x) THEN (x[i] * k + carry[i - 1]) % 256
                        ELSE carry[Len(x)]])
    IN  CHOOSE r \in {body(x) : x \in {a}} : TRUE

\* a + b on byte sequences.
Plus(a, b) ==
    LET body(x, y) ==
            LET n == IF Len(x) > Len(y) THEN Len(x) ELSE Len(y)
                at(s, i) == IF i <= Len(s) THEN s[i] ELSE 0
                carry[i \in 0..n] ==
                    IF i = 0 THEN 0 ELSE (at(x, i) + at(y, i) + carry[i - 1]) \div 256
            IN  Norm([i \in 1..(n + 1) |->
                        IF i <= n THEN (at(x, i) + at(y, i) + carry[i - 1]) % 256
                        ELSE carry[n]])
    IN  CHOOSE r \in {body(x, y) : x \in {a}, y \in {b}} : TRUE

\* a * b on byte sequences, every bit of the product kept.
Times(a, b) ==
    LET body(x, y) ==
            LET n == Len(x) + Len(y)
                at(s, i) == IF 1 <= i /\ i <= Len(s) THEN s[i] ELSE 0
                column(i) ==
                    LET sum[j \in 0..Len(x)] ==
                            IF j = 0 THEN 0 ELSE sum[j - 1] + x[j] * at(y, i + 1 - j)
                    IN  sum[Len(x)]
                carry[i \in 0..n] ==
                    IF i = 0 THEN 0 ELSE (column(i) + carry[i - 1]) \div 256
            IN  Norm([i \in 1..n |-> (column(i) + carry[i - 1]) % 256])
    IN  CHOOSE r \in {body(x, y) : x \in {a}, y \in {b}} : TRUE

\* The number a sequence of decimal digits, most significant first, writes.
RECURSIVE FromDigits(_)
FromDigits(ds) ==
    IF Len(ds) = 0 THEN <<>>
    ELSE MulAdd(FromDigits(SubSeq(ds, 1, Len(ds) - 1)), 10, ds[Len(ds)])

\* 10u64.pow(exp), by squaring as core::num does it.  A product that does
\* not fit eight bytes panics where overflow checks are compiled in and is
\* cut to eight bytes where they are not.
pow10(exp, overflow_checks) ==
    LET mul(a, b) ==
            IF Len(Times(a, b)) <= 8 THEN [panic |-> FALSE, v |-> Times(a, b)]
            ELSE IF overflow_checks THEN [panic |-> TRUE]
            ELSE [panic |-> FALSE, v |-> Norm(SubSeq(Times(a, b), 1, 8))]
        RECURSIVE go(_, _, _)
        go(base, acc, e) ==
            IF e <= 1 THEN mul(acc, base)
            ELSE LET odd == IF e % 2 = 1 THEN mul(acc, base)
                            ELSE [panic |-> FALSE, v |-> acc]
                     squared == mul(base, base)
                 IN  IF odd.panic \/ squared.panic THEN [panic |-> TRUE]
                     ELSE CHOOSE r \in {go(s, o, e \div 2) :
                                            s \in {squared.v}, o \in {odd.v}} : TRUE
    IN  IF exp = 0 THEN [panic |-> FALSE, v |-> <<1>>] ELSE go(<<10>>, <<1>>, exp)

\* u64::checked_mul
checked_mul(a, b) == IF Len(Times(a, b)) <= 8 THEN Some(Times(a, b)) ELSE None

\* u64::checked_add
checked_add(a, b) == IF Len(Plus(a, b)) <= 8 THEN Some(Plus(a, b)) ELSE None

\* v.split('.').collect()
split(v) ==
    LET dots == {i \in 1..Len(v) : v[i] = "."}
        cuts == {0, Len(v) + 1} \cup dots
        part(from) == SubSeq(v, from + 1, (CHOOSE to \in cuts : to > from /\
                                              \A c \in cuts : c > from => to <= c) - 1)
        start[k \in 1..(Cardinality(dots) + 1)] ==
            IF k = 1 THEN 0
            ELSE CHOOSE c \in dots : c > start[k - 1] /\
                                     \A e \in dots : e > start[k - 1] => c <= e
    IN  [k \in 1..(Cardinality(dots) + 1) |-> part(start[k])]

\* MidenTokenDeployment::parse
parse(decimals, v, overflow_checks) ==
    LET parts == split(v)
        whole == parts[1]
        frac == IF Len(parts) = 2 THEN parts[2] ELSE <<>>
        frac_len == Len(frac)
        whole_val == ParseU64(whole)
        frac_val == IF frac_len = 0 THEN [ok |-> TRUE, v |-> <<>>] ELSE ParseU64(frac)
        scale == pow10(decimals, overflow_checks)
        frac_scale == pow10(decimals - frac_len, overflow_checks)
        scaled_whole == checked_mul(FromDigits(whole_val.v), scale.v)
        scaled_frac == checked_mul(FromDigits(frac_val.v), frac_scale.v)
        total == IF scaled_whole.some /\ scaled_frac.some
                 THEN checked_add(scaled_whole.value, scaled_frac.value)
                 ELSE None
    IN  IF Len(parts) > 2 THEN Err("InvalidFormat")
        ELSE IF frac_len > decimals THEN Err("TooManyDecimals")
        ELSE IF ~whole_val.ok THEN Err("InvalidFormat")
        ELSE IF ~frac_val.ok THEN Err("InvalidFormat")
        ELSE IF scale.panic \/ frac_scale.panic THEN [kind |-> "Panic"]
        ELSE IF ~total.some THEN Err("Overflow")
        ELSE [kind |-> "Amount", amount |-> total.value]

\* The decimal string of n smallest units of a token with d decimals, n a
\* sequence of decimal digits: the whole part, then "." and exactly d
\* fractional digits when d > 0.
to_decimal_string(n, d) ==
    LET padded == [i \in 1..(d + 1 - Len(n)) |-> 0] \o n
        digits == IF Len(n) > d THEN n ELSE padded
        text == [i \in 1..Len(digits) |-> DigitChars[digits[i] + 1]]
    IN  IF d = 0 THEN text
        ELSE SubSeq(text, 1, Len(text) - d) \o <<".">>
             \o SubSeq(text, Len(text) - d + 1, Len(text))

\* Amounts below 10^(20-d): 0, 1, 1500000, the largest, u64::MAX and 2^64.
UnitSamples(d) ==
    {n \in {<<>>, <<1>>, <<1, 5, 0, 0, 0, 0, 0>>, [i \in 1..(20 - d) |-> 9], U64MaxDigits,
            [i \in 1..20 |-> IF i = 20 THEN 6 ELSE U64MaxDigits[i]]} :
        Len(n) = 0 \/ Len(n) <= 20 - d}

\* Decimals of the tests (2, 6), and around the largest power of ten of a
\* u64; texts of a whole part and a fractional part, and decimal strings.
ParseInputs ==
    LET decimals == {0, 2, 6, 19, 20, 255}
        wholes == {<<>>, <<"0">>, <<"1">>, <<"+", "1">>, <<"-", "1">>,
                   AmtU64Max, AmtU64Over, SubSeq(AmtU64Max, 1, 18)}
        fracs == StringsUpTo({"0", "1", "6", "x"}, MaxFracLen)
        texts == wholes
                 \cup {w \o <<".">> \o f : w \in wholes, f \in fracs}
                 \cup {<<"1", ".", "2", ".", "3">>}
    IN  {[decimals |-> d, v |-> s, overflow_checks |-> oc] :
            d \in decimals, s \in texts, oc \in BOOLEAN}
        \cup UNION {{[decimals |-> d, v |-> to_decimal_string(n, d), overflow_checks |-> oc] :
                        n \in UnitSamples(d), oc \in BOOLEAN} :
                     d \in decimals}

InitParse ==
    /\ build = "miden-native"
    /\ pc = "idle"
    /\ op = "none"
    /\ req \in ParseInputs
    /\ result = NoResult
    /\ stages = <<>>
    /\ rpc = <<>>
    /\ genesis = "unset"
    /\ Unused

\* deployment.parse(v)
CallParse ==
    /\ pc = "idle"
    /\ pc' = "done"
    /\ op' = "parse"
    /\ result' = parse(req.decimals, req.v, req.overflow_checks)
    /\ UNCHANGED <<build, req, stages, rpc, genesis, nodeAnswer, first, mutex, signerCalls>>

SpecParse == InitParse /\ [][CallParse]_vars

(***************************************************************************)
(* server: V2MidenExact::price_tag                                         *)
(***************************************************************************)
\* The digits written with nothing for zero.
u64_to_string_bare(v) == [i \in 1..Len(v) |-> DigitChars[v[i] + 1]]

\* u64::to_string: the decimal digits, "0" for zero.
u64_to_string(v) ==
    IF Len(v) = 0 THEN <<"0">> ELSE [i \in 1..Len(v) |-> DigitChars[v[i] + 1]]

\* V2MidenExact::price_tag
price_tag(pay_to, asset) ==
    [kind |-> "PriceTag",
     requirements |->
        [scheme |-> ExactSchemeToString("ExactScheme"),
         pay_to |-> fmt(pay_to),
         asset |-> fmt(asset.token.faucet_id),
         network |-> ChainId("miden", asset.token.chain_reference),
         amount |-> u64_to_string(asset.amount),
         max_timeout_seconds |-> 300,
         extra |-> None],
     enricher |-> None]

\* Recipients, and amounts of the USDC deployments and of other tokens.
PriceTagInputs ==
    [pay_to : AddressValues,
     asset : [amount : {<<>>, <<1>>, <<1, 0, 0, 0, 0, 0, 0>>, U64MaxDigits},
              token : [chain_reference : {"testnet", "mainnet", "devnet"},
                       faucet_id : {a \in AddressValues : a[2] = 171},
                       decimals : {0, 6}]]]

InitPriceTag ==
    /\ build = "miden-native"
    /\ pc = "idle"
    /\ op = "none"
    /\ req \in PriceTagInputs
    /\ result = NoResult
    /\ stages = <<>>
    /\ rpc = <<>>
    /\ genesis = "unset"
    /\ Unused

CallPriceTag ==
    /\ pc = "idle"
    /\ pc' = "done"
    /\ op' = "price_tag"
    /\ result' = price_tag(req.pay_to, req.asset)
    /\ UNCHANGED <<build, req, stages, rpc, genesis, nodeAnswer, first, mutex, signerCalls>>

SpecPriceTag == InitPriceTag /\ [][CallPriceTag]_vars

(***************************************************************************)
(* End to end: one accepts entry goes through V2MidenExactClient::accept,  *)
(* the candidate's sign_payment with a MidenClientSigner whose client      *)
(* builds, executes and proves the transfer, and the facilitator's verify  *)
(* of the payload against the entry.                                       *)
(***************************************************************************)
\* The P2ID note with the target's two elements in the wrong order.
build_pay_to_id_swapped(target, asset, note_type) ==
    [script |-> P2IDScriptRoot, inputs |-> <<target.prefix, target.suffix>>,
     assets |-> <<asset>>, serial_num |-> 1, note_type |-> note_type]

\* TransactionRequestBuilder::build_pay_to_id: the P2ID note for the target,
\* its inputs [suffix, prefix], carrying the asset.
build_pay_to_id(target, asset, note_type) ==
    [script |-> P2IDScriptRoot, inputs |-> <<target.suffix, target.prefix>>,
     assets |-> <<asset>>, serial_num |-> 1, note_type |-> note_type]

\* AccountId::from_hex: "0x", 30 hex digits, and bytes that are an AccountId.
AccountIdFromHex(s) ==
    IF ~(Len(s) >= 2 /\ s[1] = "0" /\ s[2] = "x") THEN [ok |-> FALSE]
    ELSE LET decoded == hex_decode(SubSeq(s, 3, Len(s)))
         IN  IF ~decoded.ok THEN [ok |-> FALSE]
             ELSE IF Len(decoded.bytes) # MIDEN_ACCOUNT_ID_BYTE_LEN THEN [ok |-> FALSE]
             ELSE to_account_id(decoded.bytes)

\* MidenClientSigner::create_and_prove_p2id_with_privacy of a single caller.
\* `executes` tells whether the client's build, execute and prove calls
\* succeed; when they do, the executed transaction creates the note in full
\* and the proof is sound at 96 bits.
create_and_prove_p2id_with_privacy(account_id_hex, recipient, faucet_id, amount, privacy_mode, executes) ==
    LET note_type == NoteTypeFor(privacy_mode)
        sender == AccountIdFromHex(account_id_hex)
        target == AccountIdFromHex(recipient)
        faucet == AccountIdFromHex(faucet_id)
        asset == FungibleAsset(faucet.id, amount)
        created_notes == <<FullNote(build_pay_to_id(target.id, asset, note_type))>>
        data == note_data(privacy_mode, created_notes)
        proven_tx == [account_id |-> sender.id, output_notes |-> Shrink(created_notes),
                      proof |-> [sound |-> TRUE, security_level |-> 96]]
    IN  IF ~sender.ok \/ ~target.ok \/ ~faucet.ok THEN SigningError
        ELSE IF ~executes THEN SigningError
        ELSE IF ~data.ok THEN SigningError
        ELSE [kind |-> "Proven",
              tx_hex |-> HexOf("ProvenTransaction", proven_tx),
              tx_id |-> TransactionId(proven_tx),
              tx_inputs_hex |-> HexOf("TransactionInputs", "inputs"),
              note_data |-> data.value]

\* MidenPayloadSigner::sign_payment: the payload as the JSON it is sent as.
sign_payment(signer, account_id_hex, executes) ==
    LET recipient == fmt(signer.requirements.pay_to)
        faucet_id == fmt(signer.requirements.asset)
        amount == ParseU64(signer.requirements.amount)
        proved == create_and_prove_p2id_with_privacy(account_id_hex, recipient, faucet_id,
                                                     amount.v, signer.privacy_mode, executes)
        from == from_str(account_id_hex)
    IN  IF ~amount.ok THEN [kind |-> "ParseError"]
        ELSE IF proved.kind # "Proven" THEN proved
        ELSE IF ~from.ok THEN SigningError
        ELSE [kind |-> "Payload",
              json |-> [x402Version |-> 2,
                        accepted |-> signer.requirements_json,
                        resource |-> signer.resource_info,
                        payload |-> [from |-> fmt(from.address),
                                     provenTransaction |-> proved.tx_hex,
                                     transactionId |-> proved.tx_id,
                                     transactionInputs |-> proved.tx_inputs_hex,
                                     privacyMode |-> signer.privacy_mode,
                                     noteData |-> proved.note_data]]]

\* Deserialize for types::PaymentPayload: `accepted` is read as
\* PaymentRequirements, `from` as a MidenAccountAddress.
PaymentPayloadFromJson(json) ==
    LET accepted == PaymentRequirementsTryFrom(json.accepted)
        from == from_str(json.payload.from)
    IN  IF ~accepted.ok \/ ~from.ok THEN [ok |-> FALSE]
        ELSE [ok |-> TRUE,
              payment_payload |->
                [accepted |-> accepted.requirements,
                 payload |-> [from |-> from.address,
                              proven_transaction |-> json.payload.provenTransaction,
                              transaction_inputs |-> json.payload.transactionInputs,
                              privacy_mode |-> json.payload.privacyMode,
                              note_data |-> json.payload.noteData]]]

\* The address of the fixture with its first two bytes replaced.
AddressWith(b1, b2) ==
    [i \in 1..MIDEN_ACCOUNT_ID_BYTE_LEN |->
        IF i = 1 THEN b1 ELSE IF i = 2 THEN b2 ELSE hex_decode(HexFixture).bytes[i]]

\* Entries of an accepts list: those of EntrySamples, and entries for other
\* recipients, faucets and amounts, one recipient being no AccountId.
EndToEndEntries ==
    EntrySamples
    \cup {[GoodEntry EXCEPT !.payTo = fmt(AddressWith(b1, 171)),
                            !.asset = hex_encode(AddressWith(255, 10)),
                            !.amount.text = a] :
            b1 \in {0, 10}, a \in {<<"0">>, <<"+", "9">>, AmtU64Max, AmtU64Over}}

\* The account id texts of the signers: two accounts, and bytes that are no
\* AccountId.
SignerAccounts == {fmt(AddressWith(b1, 10)) : b1 \in {0, 10, 171}}

EndToEndInputs ==
    [privacy_mode : {"Public", "TrustedFacilitator"}, entry : EndToEndEntries,
     account_id_hex : SignerAccounts]

InitEndToEnd ==
    /\ build \in {"miden-native", "miden-client-native"}
    /\ pc = "idle"
    /\ op = "none"
    /\ req \in EndToEndInputs
    /\ result = NoResult
    /\ stages = <<>>
    /\ rpc = <<>>
    /\ genesis = "unset"
    /\ Unused

\* The client receives a PaymentRequired holding the entry.
AcceptEntry ==
    /\ pc = "idle"
    /\ pc' = "accepted"
    /\ op' = "accept"
    /\ result' = [kind |-> "Candidates",
                  list |-> accept(req.privacy_mode,
                                  [version |-> "V2", resource |-> "resource",
                                   accepts |-> <<req.entry>>])]
    /\ UNCHANGED <<build, req, stages, rpc, genesis, nodeAnswer, first, mutex, signerCalls>>

\* The candidate is signed.
SignPayment ==
    /\ pc = "accepted"
    /\ Len(result.list) > 0
    /\ pc' = "signed"
    /\ op' = "sign_payment"
    /\ \E executes \in BOOLEAN :
          result' = sign_payment(result.list[1].signer, req.account_id_hex, executes)
    /\ UNCHANGED <<build, req, stages, rpc, genesis, nodeAnswer, first, mutex, signerCalls>>

\* The facilitator verifies the payload against the requirements of the
\* entry it was made for.
VerifyPayload ==
    /\ pc = "signed"
    /\ result.kind = "Payload"
    /\ pc' = "done"
    /\ op' = "verify"
    /\ LET parsed == PaymentPayloadFromJson(result.json)
           requirements == PaymentRequirementsTryFrom(req.entry).requirements
           request == [payment_payload |-> parsed.payment_payload,
                       payment_requirements |-> requirements]
       IN  result' = IF ~parsed.ok THEN [kind |-> "invalid_request"]
                     ELSE [kind |-> "Verdict",
                           json |-> result.json,
                           request |-> request,
                           matched |-> check_requirements_match(parsed.payment_payload,
                                                                requirements),
                           verdict |-> verify_miden_payment(build, request).res]
    /\ UNCHANGED <<build, req, stages, rpc, genesis, nodeAnswer, first, mutex, signerCalls>>

NextEndToEnd == AcceptEntry \/ SignPayment \/ VerifyPayload

SpecEndToEnd == InitEndToEnd /\ [][NextEndToEnd]_vars

(***************************************************************************)
(* types.rs: MidenExactError on the wire.  A message is the sequence of    *)
(* the words it starts with.                                               *)
(***************************************************************************)
\* The Display that writes every error alike.
to_string_kindless(value) == <<"Error:">>

\* impl Display for MidenExactError (thiserror), up to the first argument.
\* SchemeMismatch and AssetMismatch are built by check_requirements_match;
\* their declaration is not in types.rs and their text is taken to follow
\* that of the other two mismatches.
to_string(value) ==
    CASE value.kind = "InvalidProof" -> <<"Invalid", "proof:">>
      [] value.kind = "PaymentNotFound" ->
            <<"Payment", "not", "found", "in", "transaction", "outputs:">>
      [] value.kind = "ChainIdMismatch" -> <<"Chain", "ID", "mismatch:">>
      [] value.kind = "RecipientMismatch" -> <<"Recipient", "mismatch:">>
      [] value.kind = "InsufficientPayment" -> <<"Insufficient", "payment:">>
      [] value.kind = "TransactionExpired" -> <<"Transaction", "expired", "at", "block">>
      [] value.kind = "DeserializationError" -> <<"Deserialization", "error:">>
      [] value.kind = "AcceptedRequirementsMismatch" ->
            <<"Accepted", "requirements", "do", "not", "match", "provided", "requirements">>
      [] value.kind = "NoteBindingFailed" -> <<"Note", "binding", "verification", "failed:">>
      [] value.kind = "ProviderError" -> <<"Provider", "error:">>
      [] value.kind = "SchemeMismatch" -> <<"Scheme", "mismatch:">>
      [] value.kind = "AssetMismatch" -> <<"Asset", "mismatch:">>

\* impl From<MidenExactError> for X402SchemeFacilitatorError.  The message
\* of an InvalidProof is the one verify_miden_payment gave it in build b.
From(b, value) ==
    IF value.kind = "InvalidProof"
    THEN [wire |-> "PaymentVerification(InvalidFormat)",
          message |-> IF HasMidenNative(b)
                      THEN <<"STARK", "proof", "verification", "failed:">>
                      ELSE <<"STARK", "proof", "verification", "unavailable:">>]
    ELSE IF value.kind = "AcceptedRequirementsMismatch"
    THEN [wire |-> "PaymentVerification(InvalidFormat)",
          message |-> <<"Accepted", "requirements", "mismatch">>]
    ELSE [wire |-> "OnchainFailure", message |-> to_string(value)]

(***************************************************************************)
(* C2                                                                      *)
(***************************************************************************)
RECURSIVE IntOfDigits(_)
IntOfDigits(s) ==
    IF Len(s) = 0 THEN 0
    ELSE 10 * IntOfDigits(SubSeq(s, 1, Len(s) - 1)) + DigitVal(s[Len(s)])

PlainNumeral(s) ==
    /\ Len(s) \in 1..9
    /\ \A i \in 1..Len(s) : IsDigit(s[i])

\* The amounts as numbers: by integer arithmetic where the numeral is plain
\* and short, by the parsed u64 otherwise.
AmountAtLeast(a, r) ==
    IF PlainNumeral(a) /\ PlainNumeral(r) THEN IntOfDigits(a) >= IntOfDigits(r)
    ELSE /\ ParseU64(a).ok
         /\ ParseU64(r).ok
         /\ ~U64Less(ParseU64(a).v, ParseU64(r).v)

\* C2: check_requirements_match is Ok exactly when scheme, network, pay_to and
\* asset are equal and the accepted amount, as a u64, is at least the required
\* amount; the comparison is numeric ("999999" against "1000000" is
\* InsufficientPayment, equal and larger amounts pass).
C2_MatchIffEqualAndEnough ==
    op = "check_requirements_match" =>
        LET a == req.payment_payload.accepted
            r == req.payment_requirements
            same == /\ a.scheme = r.scheme
                    /\ a.network = r.network
                    /\ a.pay_to = r.pay_to
                    /\ a.asset = r.asset
        IN  /\ (result = OkResult) <=> (same /\ AmountAtLeast(a.amount, r.amount))
            /\ (same /\ a.amount = Amt999999 /\ r.amount = Amt1000000)
                    => result = Err("InsufficientPayment")
            /\ (same /\ a.amount \in {Amt1000000, Amt2000000} /\ r.amount = Amt1000000)
                    => result = OkResult

\* An accepted "10" against a required "9" passes: larger as a number, smaller
\* as text.
C2_Witness ==
    /\ op = "check_requirements_match"
    /\ result = OkResult
    /\ req.payment_payload.accepted.amount = <<"1", "0">>
    /\ req.payment_requirements.amount = <<"9">>

(***************************************************************************)
(* C6                                                                      *)
(***************************************************************************)
RECURSIVE U64ToInt(_)
U64ToInt(v) ==
    IF Len(v) = 0 THEN 0 ELSE 10 * U64ToInt(SubSeq(v, 1, Len(v) - 1)) + v[Len(v)]

\* A note pays (recipient, faucet, amount): P2ID script, at least two inputs
\* whose second is the recipient's prefix and whose first is its suffix, and a
\* fungible asset of the faucet worth at least the amount.
NotePays(note, recipient, faucet, amount) ==
    /\ note.script = "P2ID"
    /\ Len(note.inputs) >= 2
    /\ note.inputs[2] = recipient.prefix
    /\ note.inputs[1] = recipient.suffix
    /\ \E j \in 1..Len(note.assets) :
          /\ note.assets[j].fungible
          /\ note.assets[j].faucet_id = faucet
          /\ U64ToInt(note.assets[j].amount) >= U64ToInt(amount)

\* C6: in Public mode the inspection succeeds exactly when some one output
\* note of the full variant is a P2ID note to the required recipient carrying
\* enough of the required faucet's asset; otherwise (header-only notes, another
\* recipient, ...) it fails with PaymentNotFound.
C6_PublicFindsPayingFullNote ==
    op = "verify_public_note" =>
        LET notes == req.proven_tx.output_notes
            found == \E i \in 1..Len(notes) :
                        /\ notes[i].variant = "Full"
                        /\ NotePays(notes[i].note, req.required_recipient,
                                    req.required_faucet, req.required_amount)
        IN  /\ (result = OkResult) <=> found
            /\ ~found => result = Err("PaymentNotFound")

\* The first output note is a header, the second a full P2ID note that pays.
C6_Witness ==
    /\ op = "verify_public_note"
    /\ result = OkResult
    /\ Len(req.proven_tx.output_notes) = 2
    /\ req.proven_tx.output_notes[1].variant = "Header"
    /\ req.proven_tx.output_notes[2].variant = "Full"

(***************************************************************************)
(* C7, C8                                                                  *)
(***************************************************************************)
OffChainIsNote == req.note_data_hex.hex /\ req.note_data_hex.bytes.kind = "Note"

OffChainNote == req.note_data_hex.bytes.value

OffChainBound ==
    \E i \in 1..Len(req.proven_tx.output_notes) :
        LET o == req.proven_tx.output_notes[i]
        IN  (IF o.variant = "Full" THEN NoteId(o.note) ELSE o.id) = NoteId(OffChainNote)

\* C7: in TrustedFacilitator mode the inspection succeeds only if the id of
\* the off-chain note is the id of some output note of the proven transaction;
\* with no such output note it fails with NoteBindingFailed, whatever the
\* off-chain note's recipient, faucet and amount.
C7_TrustedNeedsBinding ==
    op = "verify_trusted_facilitator_note" =>
        /\ result = OkResult => (OffChainIsNote /\ OffChainBound)
        /\ (OffChainIsNote /\ ~OffChainBound) => result = Err("NoteBindingFailed")

\* An off-chain note that pays the required recipient in full, while the
\* transaction only holds the header of its re-serialized twin.
C7_Witness ==
    /\ op = "verify_trusted_facilitator_note"
    /\ OffChainIsNote
    /\ NotePays(OffChainNote, req.required_recipient, req.required_faucet,
                req.required_amount)
    /\ Len(req.proven_tx.output_notes) > 0
    /\ ~OffChainBound
    /\ result = Err("NoteBindingFailed")

\* C8 as claimed: once the binding has succeeded, every failure is reported as
\* RecipientMismatch or PaymentNotFound.
C8_Original ==
    (/\ op = "verify_trusted_facilitator_note"
     /\ OffChainIsNote
     /\ OffChainBound
     /\ result # OkResult)
        => result.kind \in {"RecipientMismatch", "PaymentNotFound"}

\* C8 amended: once the binding has succeeded, a script root other than P2ID
\* or fewer than two inputs is reported as NoteBindingFailed, another target
\* as RecipientMismatch, and a missing or too small asset of the required
\* faucet as PaymentNotFound; no other error kind is reported.
C8_BoundNoteFailureKinds ==
    (/\ op = "verify_trusted_facilitator_note"
     /\ OffChainIsNote
     /\ OffChainBound)
        => LET n == OffChainNote
               isP2ID == n.script = "P2ID" /\ Len(n.inputs) >= 2
               toRecipient == /\ n.inputs[2] = req.required_recipient.prefix
                              /\ n.inputs[1] = req.required_recipient.suffix
           IN  /\ ~isP2ID => result = Err("NoteBindingFailed")
               /\ (isP2ID /\ ~toRecipient) => result = Err("RecipientMismatch")
               /\ (isP2ID /\ toRecipient
                     /\ ~NotePays(n, req.required_recipient, req.required_faucet,
                                  req.required_amount))
                    => result = Err("PaymentNotFound")
               /\ result # OkResult
                    => result.kind \in {"NoteBindingFailed", "RecipientMismatch",
                                        "PaymentNotFound"}

\* A bound P2ID note to the required recipient whose only asset is of another
\* faucet: PaymentNotFound.
C8_Witness ==
    /\ op = "verify_trusted_facilitator_note"
    /\ OffChainIsNote
    /\ OffChainBound
    /\ OffChainNote.script = "P2ID"
    /\ OffChainNote.assets = <<FungibleAsset(FaucetG, U10)>>
    /\ result = Err("PaymentNotFound")

(***************************************************************************)
(* The facilitator's requests, read apart from the code's functions.       *)
(***************************************************************************)
ReqAccepted == req.payment_payload.accepted

ReqRequired == req.payment_requirements

ReqPayload == req.payment_payload.payload

TermsMatch ==
    /\ ReqAccepted.scheme = ReqRequired.scheme
    /\ ReqAccepted.network = ReqRequired.network
    /\ ReqAccepted.pay_to = ReqRequired.pay_to
    /\ ReqAccepted.asset = ReqRequired.asset
    /\ AmountAtLeast(ReqAccepted.amount, ReqRequired.amount)

\* Both hex fields decode and the first holds a proven transaction.
CarriesProvenTx ==
    /\ ReqPayload.proven_transaction.hex
    /\ ReqPayload.transaction_inputs.hex
    /\ ReqPayload.proven_transaction.bytes.kind = "ProvenTransaction"

ReqProvenTx == ReqPayload.proven_transaction.bytes.value

ProofHolds == ReqProvenTx.proof.sound /\ ReqProvenTx.proof.security_level >= 96

RequiredRecipient == [prefix |-> ReqRequired.pay_to[1], suffix |-> ReqRequired.pay_to[2]]

RequiredFaucet == [prefix |-> ReqRequired.asset[1], suffix |-> ReqRequired.asset[2]]

RequiredAmount == ParseU64(ReqRequired.amount).v

\* Some full output note of the proven transaction pays the requirements.
PaidOnChain ==
    \E i \in 1..Len(ReqProvenTx.output_notes) :
        /\ ReqProvenTx.output_notes[i].variant = "Full"
        /\ NotePays(ReqProvenTx.output_notes[i].note, RequiredRecipient, RequiredFaucet,
                    RequiredAmount)

\* The off-chain note is present, is the note behind some output note of the
\* proven transaction, and pays the requirements.
PaidOffChain ==
    /\ ReqPayload.note_data.some
    /\ ReqPayload.note_data.value.hex
    /\ ReqPayload.note_data.value.bytes.kind = "Note"
    /\ LET n == ReqPayload.note_data.value.bytes.value
       IN  /\ \E i \in 1..Len(ReqProvenTx.output_notes) :
                 LET o == ReqProvenTx.output_notes[i]
                 IN  (IF o.variant = "Full" THEN NoteId(o.note) ELSE o.id) = NoteId(n)
           /\ NotePays(n, RequiredRecipient, RequiredFaucet, RequiredAmount)

PaymentProven ==
    /\ TermsMatch
    /\ CarriesProvenTx
    /\ ProofHolds
    /\ IF ReqPayload.privacy_mode = "Public" THEN PaidOnChain ELSE PaidOffChain

FullPipeline ==
    <<"RequirementsMatch", "HexDecode", "Deserialize", "ProofVerify",
      "ParseRequirements", "NoteInspect", "Accept">>

(***************************************************************************)
(* C1                                                                      *)
(***************************************************************************)
\* C1: whenever verify returns Valid(payer), the accepted terms matched the
\* requirements, the proven transaction deserialized, its proof verified at
\* security level 96, the note inspection of the payload's mode found a paying
\* note, payer is the address form of the proven transaction's account id,
\* and the call went through every stage of the pipeline.
C1_ValidOnlyWhenProven ==
    (op = "verify" /\ result.kind = "Valid") =>
        /\ PaymentProven
        /\ result.payer = [prefix0x |-> TRUE,
                           bytes |-> <<ReqProvenTx.account_id.prefix,
                                       ReqProvenTx.account_id.suffix>>]
        /\ stages = FullPipeline

\* A Valid verdict in TrustedFacilitator mode.
C1_Witness ==
    /\ op = "verify"
    /\ result.kind = "Valid"
    /\ ReqPayload.privacy_mode = "TrustedFacilitator"
    /\ ReqPayload.from # <<ReqProvenTx.account_id.prefix, ReqProvenTx.account_id.suffix>>

(***************************************************************************)
(* C3                                                                      *)
(***************************************************************************)
\* C3: in a build without miden-native, verify never returns Valid: terms
\* that do not match are answered with their mismatch error, and every request
\* whose terms match fails with InvalidProof.
C3_StubNeverValid ==
    (build = "none" /\ op = "verify") =>
        /\ result.kind # "Valid"
        /\ TermsMatch => result = Err("InvalidProof")
        /\ ~TermsMatch =>
              /\ stages = <<"RequirementsMatch">>
              /\ result = IF ReqAccepted.pay_to # ReqRequired.pay_to
                          THEN Err("RecipientMismatch")
                          ELSE Err("InsufficientPayment")

\* A request that carries a proven payment and is still refused.
C3_Witness ==
    /\ build = "none"
    /\ op = "verify"
    /\ PaymentProven
    /\ result = Err("InvalidProof")

(***************************************************************************)
(* C4                                                                      *)
(***************************************************************************)
ProviderCalls == {i \in 1..Len(rpc) : rpc[i].call = "provider.submit_proven_transaction"}

\* C4: in a settle call the provider's submit_proven_transaction is called
\* only after the verifier has succeeded on that request, at most once, and
\* with the bytes decoded from that request's payload; when verification
\* fails, its error is the result and the provider is not called.
C4_SubmitOnlyAfterVerify ==
    op = "settle" =>
        LET v == verify_miden_payment(build, req).res
        IN  /\ v.kind # "Valid" => (result = v /\ rpc = <<>>)
            /\ rpc # <<>> =>
                  /\ PaymentProven
                  /\ SubSeq(stages, 1, Len(FullPipeline)) = FullPipeline
                  /\ stages[Len(stages)] = "Submit"
                  /\ ProviderCalls = {1}
                  /\ rpc[1].proven_tx_bytes = ReqPayload.proven_transaction.bytes
                  /\ rpc[1].transaction_inputs_bytes = ReqPayload.transaction_inputs.bytes

\* A settle call that reached the node's submit RPC.
C4_Witness ==
    /\ op = "settle"
    /\ result.kind = "Success"
    /\ Len(rpc) = 4
    /\ rpc[4].call = "rpc.submit_proven_transaction"

(***************************************************************************)
(* C5                                                                      *)
(***************************************************************************)
\* C5: for every payload the facilitator accepts (verify Valid, or settle
\* Success) the payload's `from` is the account id of the proven transaction.
C5_FromIsProvenAccount ==
    (\/ op = "verify" /\ result.kind = "Valid"
     \/ op = "settle" /\ result.kind = "Success")
        => ReqPayload.from = <<ReqProvenTx.account_id.prefix,
                               ReqProvenTx.account_id.suffix>>

(***************************************************************************)
(* C9                                                                      *)
(***************************************************************************)
\* C9 as claimed: for every payload the verifier accepts, noteData is present
\* exactly when privacyMode is TrustedFacilitator.
C9_Original ==
    (op = "verify" /\ result.kind = "Valid") =>
        (ReqPayload.note_data.some <=> ReqPayload.privacy_mode = "TrustedFacilitator")

\* C9 amended: every payload the verifier accepts in TrustedFacilitator mode
\* carries noteData (one without it is rejected); in Public mode noteData is
\* not read: the verdict is that of the same payload without noteData.
C9_NoteDataNeededOnlyWhenTrusted ==
    op = "verify" =>
        /\ (result.kind = "Valid" /\ ReqPayload.privacy_mode = "TrustedFacilitator")
              => ReqPayload.note_data.some
        /\ ReqPayload.privacy_mode = "Public" =>
              result = verify_miden_payment(
                          build,
                          [req EXCEPT !.payment_payload.payload.note_data = None]).res

\* A Public payload that carries noteData and is accepted.
C9_Witness ==
    /\ op = "verify"
    /\ result.kind = "Valid"
    /\ ReqPayload.privacy_mode = "Public"
    /\ ReqPayload.note_data.some

(***************************************************************************)
(* C10                                                                     *)
(***************************************************************************)
\* C10: a verify request in TrustedFacilitator mode without noteData that
\* passes the requirements match, the decoding and the proof verification
\* fails with DeserializationError; it is never Valid.
C10_TrustedWithoutNoteData ==
    (/\ op = "verify"
     /\ ReqPayload.privacy_mode = "TrustedFacilitator"
     /\ ~ReqPayload.note_data.some
     /\ TermsMatch
     /\ CarriesProvenTx
     /\ ProofHolds)
        => result = Err("DeserializationError")

\* Such a request whose transaction holds the paying note in full: the
\* on-chain inspection would have passed.
C10_Witness ==
    /\ op = "verify"
    /\ ReqPayload.privacy_mode = "TrustedFacilitator"
    /\ ~ReqPayload.note_data.some
    /\ TermsMatch
    /\ CarriesProvenTx
    /\ ProofHolds
    /\ PaidOnChain
    /\ stages[Len(stages)] = "NoteInspect"
    /\ result = Err("DeserializationError")

(***************************************************************************)
(* C11                                                                     *)
(***************************************************************************)
\* The error the provider runs into during the current settle call, read
\* from what the node answered and from the bytes submitted.
ProviderFailure ==
    IF build = "miden-client-native" THEN
        IF nodeAnswer \in {"get_block_header fails", "set_genesis_commitment fails"}
            THEN "ConnectionError"
        ELSE IF ReqPayload.transaction_inputs.bytes.kind # "TransactionInputs"
            THEN "SubmissionError"
        ELSE IF nodeAnswer \in {"submit fails", "submit rejected"}
            THEN "SubmissionError"
        ELSE "none"
    ELSE "none"

\* C11: a settle call whose verification passed and whose submission
\* succeeded returns Success with payer = the payload's from, transaction =
\* the id the provider returned, network = the provider's chain id; when the
\* provider's submit fails, settle returns ProviderError with that cause, and
\* never Success.
C11_SettleSuccessOrProviderError ==
    op = "settle" =>
        /\ result.kind = "Success" => rpc # <<>>
        /\ rpc # <<>> =>
              IF ProviderFailure = "none"
              THEN result = [kind |-> "Success",
                             payer |-> [prefix0x |-> TRUE, bytes |-> ReqPayload.from],
                             transaction |-> [tx_id_of |-> ReqProvenTx],
                             network |-> [namespace |-> "miden", reference |-> "testnet"]]
              ELSE result = [kind |-> "ProviderError", cause |-> ProviderFailure]

\* A settle call the node could not be reached for at the submit RPC.
C11_Witness ==
    /\ op = "settle"
    /\ nodeAnswer = "submit fails"
    /\ Len(rpc) = 4
    /\ result = [kind |-> "ProviderError", cause |-> "SubmissionError"]

(***************************************************************************)
(* C12                                                                     *)
(***************************************************************************)
\* C12: when the node rejects the transaction at the submit RPC of a settle
\* call, the settle error is ProviderError of the sub-kind
\* TransactionRejected, apart from connection and other submission failures.
C12_RejectionDistinguishable ==
    (/\ op = "settle"
     /\ nodeAnswer = "submit rejected"
     /\ \E i \in 1..Len(rpc) : rpc[i].call = "rpc.submit_proven_transaction")
        => result = [kind |-> "ProviderError", cause |-> "TransactionRejected"]

(***************************************************************************)
(* C15                                                                     *)
(***************************************************************************)
\* The first stage of the pipeline the current request does not pass.
FirstFailure ==
    IF ~TermsMatch THEN "RequirementsMatch"
    ELSE IF ~(ReqPayload.proven_transaction.hex /\ ReqPayload.transaction_inputs.hex)
        THEN "HexDecode"
    ELSE IF ReqPayload.proven_transaction.bytes.kind # "ProvenTransaction"
        THEN "Deserialize"
    ELSE IF ~ProofHolds THEN "ProofVerify"
    ELSE IF ReqRequired.pay_to[1] = 0 \/ ReqRequired.asset[1] = 0
        THEN "ParseRequirements"
    ELSE IF ~(IF ReqPayload.privacy_mode = "Public" THEN PaidOnChain ELSE PaidOffChain)
        THEN "NoteInspect"
    ELSE "none"

\* The errors a stage fails with.
StageErrors(stage) ==
    CASE stage = "RequirementsMatch" ->
            {"SchemeMismatch", "ChainIdMismatch", "RecipientMismatch", "AssetMismatch",
             "DeserializationError", "InsufficientPayment"}
      [] stage = "HexDecode" -> {"DeserializationError"}
      [] stage = "Deserialize" -> {"DeserializationError"}
      [] stage = "ProofVerify" -> {"InvalidProof"}
      [] stage = "ParseRequirements" -> {"DeserializationError"}
      [] stage = "NoteInspect" ->
            {"PaymentNotFound", "NoteBindingFailed", "RecipientMismatch",
             "DeserializationError"}

\* The pipeline up to and including a stage.
PipelineUpTo(stage) ==
    SubSeq(FullPipeline, 1, CHOOSE i \in 1..Len(FullPipeline) : FullPipeline[i] = stage)

\* C15: a verify call runs the stages RequirementsMatch, HexDecode,
\* Deserialize, ProofVerify, (parsing of the requirements), NoteInspect,
\* Accept in this order, each at most once; it stops at the first stage the
\* request does not pass and returns that stage's error; it returns Valid
\* only when every stage has passed.
C15_StraightLinePipeline ==
    (op = "verify" /\ HasMidenNative(build)) =>
        IF FirstFailure = "none"
        THEN stages = FullPipeline /\ result.kind = "Valid"
        ELSE /\ stages = PipelineUpTo(FirstFailure)
             /\ result.kind \in StageErrors(FirstFailure)

\* A request that fails at the proof and would have failed the note
\* inspection too: only the proof's error is returned.
C15_Witness ==
    /\ op = "verify"
    /\ FirstFailure = "ProofVerify"
    /\ ~PaidOnChain
    /\ ReqPayload.privacy_mode = "Public"
    /\ result = Err("InvalidProof")
    /\ stages[Len(stages)] = "ProofVerify"

(***************************************************************************)
(* C19                                                                     *)
(***************************************************************************)
RpcIndex(name) == {i \in 1..Len(rpc) : rpc[i].call = name}

GenesisBeforeSubmit ==
    op = "settle" =>
        /\ \A i \in RpcIndex("rpc.submit_proven_transaction") :
              /\ genesis = NodeGenesis
              /\ \E j \in RpcIndex("rpc.get_block_header_by_number"),
                    k \in RpcIndex("rpc.set_genesis_commitment") : j < k /\ k < i
        /\ nodeAnswer \in {"get_block_header fails", "set_genesis_commitment fails"} =>
              /\ result = [kind |-> "ProviderError", cause |-> "ConnectionError"]
              /\ RpcIndex("rpc.submit_proven_transaction") = {}

\* C19: the provider issues the submit RPC only after it has fetched the
\* genesis block header and registered its commitment on the RPC client; a
\* registered commitment is never changed by a later call; when the fetch or
\* the registration fails the call fails with ConnectionError and no submit
\* RPC is issued.
C19_GenesisRegisteredBeforeSubmit ==
    /\ []GenesisBeforeSubmit
    /\ [][genesis # "unset" => genesis' = genesis]_vars

\* A second settle call on a provider whose commitment is registered, which
\* fails to fetch the genesis header.
C19_Witness ==
    /\ op = "settle"
    /\ genesis = NodeGenesis
    /\ nodeAnswer = "get_block_header fails"
    /\ Len(rpc) = 2

HexDigitChars ==
    {"0", "1", "2", "3", "4", "5", "6", "7", "8", "9",
     "a", "b", "c", "d", "e", "f", "A", "B", "C", "D", "E", "F"}

LowerCaseChar(c) ==
    CASE c = "A" -> "a" [] c = "B" -> "b" [] c = "C" -> "c"
      [] c = "D" -> "d" [] c = "E" -> "e" [] c = "F" -> "f"
      [] OTHER -> c

LowerCase(s) == [i \in 1..Len(s) |-> LowerCaseChar(s[i])]

IsHex30(s) == Len(s) = 30 /\ \A i \in 1..30 : s[i] \in HexDigitChars

\* C20: parsing the text an address formats to gives the address back, and
\* formatting what a string of exactly 30 hex digits parses to gives "0x"
\* followed by the lower-case form of the string.
C20_AddressRoundTrip ==
    /\ op = "fmt" => (result.kind = "Parsed" /\ result.address = req.address)
    /\ (op = "from_str" /\ IsHex30(req.text)) =>
          /\ result.kind = "Parsed"
          /\ result.text = <<"0", "x">> \o LowerCase(req.text)

\* A string of 30 hex digits with an upper-case digit, parsed and formatted.
C20_Witness ==
    /\ op = "from_str"
    /\ IsHex30(req.text)
    /\ req.text[1] = "A"
    /\ result.kind = "Parsed"
    /\ result.text[3] = "a"

(***************************************************************************)
(* C17                                                                     *)
(***************************************************************************)
\* An address text: 30 hex digits, with or without "0x" in front.
IsAddressText(s) ==
    \/ IsHex30(s)
    \/ Len(s) = 32 /\ s[1] = "0" /\ s[2] = "x" /\ IsHex30(SubSeq(s, 3, 32))

\* An entry that parses as PaymentRequirements, names a Miden network and
\* carries an amount that parses as a u64.
Recognised(entry) ==
    /\ entry.json = "object"
    /\ entry.scheme = "exact"
    /\ entry.network.wellformed
    /\ entry.amount.type = "string"
    /\ IsAddressText(entry.payTo)
    /\ IsAddressText(entry.asset)
    /\ entry.network.namespace = "miden"
    /\ ParseU64(entry.amount.text).ok

\* C17: accept on a v2 PaymentRequired returns one candidate for each
\* recognised entry of accepts, in the order of accepts, each built from its
\* entry alone; the other entries are skipped; a v1 envelope gives the empty
\* list.
C17_AcceptKeepsRecognisedInOrder ==
    op = "accept" =>
        IF req.payment_required.version = "V1" THEN result.list = <<>>
        ELSE LET kept == SelectSeq(req.payment_required.accepts, Recognised)
             IN  /\ Len(result.list) = Len(kept)
                 /\ \A i \in 1..Len(kept) :
                       /\ result.list[i].signer.requirements_json = kept[i]
                       /\ result.list[i].signer.privacy_mode = req.privacy_mode
                       /\ result.list[i].scheme = "exact"
                       /\ result.list[i].chain_id
                            = [namespace |-> "miden",
                               reference |-> kept[i].network.reference]
                       /\ result.list[i].amount = ParseU64(kept[i].amount.text).v

\* A recognised entry behind a skipped one: it alone is kept.
C17_Witness ==
    /\ op = "accept"
    /\ req.payment_required.version = "V2"
    /\ Len(req.payment_required.accepts) = 2
    /\ ~Recognised(req.payment_required.accepts[1])
    /\ Recognised(req.payment_required.accepts[2])
    /\ Len(result.list) = 1
    /\ result.list[1].signer.requirements_json = req.payment_required.accepts[2]

(***************************************************************************)
(* C13                                                                     *)
(***************************************************************************)
\* The call of caller c is between client.lock() and drop(client_guard).
InCriticalSection(c) == signerCalls[c].pc \in {"locked", "built", "executed"}

\* The prover of caller c's call is running.
Proving(c) == signerCalls[c].pc = "proving"

\* C13: in every interleaving of create_and_prove calls on one shared
\* client, at most one call is inside the build-request/execute-transaction
\* critical section, and no call holds the client mutex while its prover
\* runs.
C13_MutexReleasedBeforeProving ==
    /\ Cardinality({c \in DOMAIN signerCalls : InCriticalSection(c)}) <= 1
    /\ \A c \in DOMAIN signerCalls : Proving(c) => c \notin mutex

\* A second signer holds the mutex and has executed its transaction while
\* the first is still proving.
C13_Witness ==
    \E a, b \in DOMAIN signerCalls :
        /\ a # b
        /\ Proving(a)
        /\ signerCalls[b].pc = "executed"
        /\ mutex = {b}

(***************************************************************************)
(* C14                                                                     *)
(***************************************************************************)
\* The MidenClientSigner calls made in TrustedFacilitator mode.
TrustedSignerCalls ==
    {c \in DOMAIN signerCalls :
        /\ signerCalls[c].kind = "MidenClientSigner"
        /\ signerCalls[c].privacy_mode = "TrustedFacilitator"}

\* The execution result of caller c's call holds a full note.
HasFullNote(c) ==
    \E i \in 1..Len(signerCalls[c].created_notes) :
        signerCalls[c].created_notes[i].variant = "Full"

\* The prover was invoked in caller c's call.
ProverInvoked(c) ==
    \E j \in 1..Len(signerCalls[c].events) : signerCalls[c].events[j] = "prove"

\* The execution of caller c's call has returned its result.
Executed(c) ==
    \E j \in 1..Len(signerCalls[c].events) : signerCalls[c].events[j] = "execute"

\* C14: in TrustedFacilitator mode the full note is captured from the
\* execution result strictly before the prover is invoked; an execution
\* result with no full note ends the call with SigningError and the prover
\* is never invoked; a call that succeeds returns the hex of a full note of
\* the execution result as note data, never None.
C14_NoteCapturedBeforeProving ==
    \A c \in TrustedSignerCalls :
        /\ \A j \in 1..Len(signerCalls[c].events) :
              signerCalls[c].events[j] = "prove" =>
                  \E e, i \in 1..(j - 1) :
                      /\ e < i
                      /\ signerCalls[c].events[e] = "execute"
                      /\ signerCalls[c].events[i] = "capture"
        /\ (Executed(c) /\ ~HasFullNote(c)) =>
              /\ ~ProverInvoked(c)
              /\ signerCalls[c].pc = "done" => signerCalls[c].result = SigningError
        /\ (signerCalls[c].pc = "returned" \/ signerCalls[c].result.kind = "Payload") =>
              /\ signerCalls[c].note_data.some
              /\ \E i \in 1..Len(signerCalls[c].created_notes) :
                    /\ signerCalls[c].created_notes[i].variant = "Full"
                    /\ signerCalls[c].note_data.value =
                          HexOf("Note", signerCalls[c].created_notes[i].note)
        /\ signerCalls[c].result.kind = "Payload" =>
              /\ signerCalls[c].result.payload.note_data.some
              /\ signerCalls[c].result.payload.note_data.value.bytes.kind = "Note"

\* One TrustedFacilitator call failed on an execution result without a full
\* note, its prover never invoked; another succeeded with note data.
C14_Witness ==
    \E a, b \in TrustedSignerCalls :
        /\ Executed(a) /\ ~HasFullNote(a)
        /\ signerCalls[a].result = SigningError
        /\ ~ProverInvoked(a)
        /\ signerCalls[b].result.kind = "Payload"
        /\ signerCalls[b].result.payload.note_data.some

(***************************************************************************)
(* C18                                                                     *)
(***************************************************************************)
\* The note type the mode of caller c's call asks for.
ExpectedNoteType(c) ==
    IF signerCalls[c].privacy_mode = "Public" THEN "Public"
    ELSE IF signerCalls[c].privacy_mode = "TrustedFacilitator" THEN "Private"
    ELSE "none"

\* create_and_prove_p2id_with_privacy has returned Ok to sign_payment.
SignerReturnedOk(c) ==
    signerCalls[c].pc = "returned" \/ signerCalls[c].result.kind = "Payload"

\* C18: MidenClientSigner builds a Public note in Public mode and a Private
\* note in TrustedFacilitator mode, and returns note data exactly in
\* TrustedFacilitator mode; the default implementation succeeds only in
\* Public mode, without note data, and gives SigningError otherwise;
\* sign_payment puts the call's mode and the returned note data in the
\* payload.
C18_NoteTypeAndNoteDataFollowMode ==
    \A c \in DOMAIN signerCalls :
        /\ signerCalls[c].kind = "MidenClientSigner" =>
              /\ signerCalls[c].pc \in {"locked", "built", "executed", "proving", "returned"} =>
                    signerCalls[c].note_type = ExpectedNoteType(c)
              /\ \A i \in 1..Len(signerCalls[c].created_notes) :
                    signerCalls[c].created_notes[i].variant = "Full" =>
                        signerCalls[c].created_notes[i].note.note_type = ExpectedNoteType(c)
              /\ SignerReturnedOk(c) =>
                    (signerCalls[c].note_data.some <=>
                        signerCalls[c].privacy_mode = "TrustedFacilitator")
        /\ signerCalls[c].kind = "default" =>
              /\ SignerReturnedOk(c) =>
                    /\ signerCalls[c].privacy_mode = "Public"
                    /\ ~signerCalls[c].note_data.some
              /\ (/\ signerCalls[c].privacy_mode # "Public"
                  /\ ParseU64(signerCalls[c].amount).ok
                  /\ signerCalls[c].pc # "start") =>
                    /\ signerCalls[c].pc = "done"
                    /\ signerCalls[c].result = SigningError
        /\ signerCalls[c].result.kind = "Payload" =>
              /\ signerCalls[c].result.payload.privacy_mode = signerCalls[c].privacy_mode
              /\ signerCalls[c].result.payload.note_data = signerCalls[c].note_data

\* A MidenClientSigner payload carrying note data in TrustedFacilitator
\* mode, next to a default signer that refused that mode.
C18_Witness ==
    \E a, b \in DOMAIN signerCalls :
        /\ signerCalls[a].kind = "MidenClientSigner"
        /\ signerCalls[a].privacy_mode = "TrustedFacilitator"
        /\ signerCalls[a].result.kind = "Payload"
        /\ signerCalls[a].result.payload.note_data.some
        /\ signerCalls[b].kind = "default"
        /\ signerCalls[b].privacy_mode = "TrustedFacilitator"
        /\ signerCalls[b].result = SigningError

(***************************************************************************)
(* C21                                                                     *)
(***************************************************************************)
\* "0x" followed by exactly 30 lower-case hex digits.
IsCanonicalAddressText(s) ==
    /\ Len(s) = 32
    /\ s[1] = "0"
    /\ s[2] = "x"
    /\ \A i \in 3..32 : \E k \in 1..16 : LowerHex[k] = s[i]

\* C21: a wire text parses as an account address only in the canonical form,
\* "0x" followed by exactly 30 lower-case hex digits; a text without the
\* prefix, with an upper-case digit, with a character that is no hex digit
\* or of another length is a parse error.
C21_OnlyCanonicalTextParses ==
    (op = "from_str" /\ result.kind = "Parsed") => IsCanonicalAddressText(req.text)

(***************************************************************************)
(* C22                                                                     *)
(***************************************************************************)
\* The decimal digits of a text of digits with an optional leading '+'.
DigitsOf(s) ==
    LET body == IF Len(s) > 0 /\ s[1] = "+" THEN Tail(s) ELSE s
    IN  [i \in 1..Len(body) |-> DigitVal(body[i])]

\* The text v writes a decimal number with at most d fractional digits.
IsDecimalText(v, d) ==
    /\ Len(split(v)) \in {1, 2}
    /\ \E i \in 1..Len(split(v)[1]) : IsDigit(split(v)[1][i])
    /\ \A i \in 1..Len(split(v)[1]) :
          IsDigit(split(v)[1][i]) \/ (i = 1 /\ split(v)[1][i] = "+")
    /\ Len(split(v)) = 2 =>
          /\ Len(split(v)[2]) <= d
          /\ \A i \in 1..Len(split(v)[2]) : IsDigit(split(v)[2][i])

\* The digits of the number of smallest units a decimal text v stands for.
ScaledDigits(v, d) ==
    LET frac == IF Len(split(v)) = 2 THEN split(v)[2] ELSE <<>>
    IN  StripZeros(DigitsOf(split(v)[1]) \o DigitsOf(frac)
                   \o [i \in 1..(d - Len(frac)) |-> 0])

ParseErrorKinds == {"InvalidFormat", "TooManyDecimals", "Overflow"}

\* C22: parse gives n back for the decimal string of every n below
\* 10^(20-d); it fails on more than d fractional digits; and it fails with
\* Overflow, not a wrapped amount, when the scaled value is above u64::MAX.
C22_ParseRoundTripAndLimits ==
    op = "parse" =>
        /\ \A n \in UnitSamples(req.decimals) :
              req.v = to_decimal_string(n, req.decimals) =>
                  result = [kind |-> "Amount", amount |-> FromDigits(n)]
        /\ (Len(split(req.v)) >= 2 /\ Len(split(req.v)[2]) > req.decimals) =>
              result.kind \in ParseErrorKinds
        /\ (/\ IsDecimalText(req.v, req.decimals)
            /\ U64Less(U64MaxDigits, ScaledDigits(req.v, req.decimals))) =>
              result.kind = "Overflow"

(***************************************************************************)
(* C30                                                                     *)
(***************************************************************************)
\* C30: for every decimals value and every text, parse returns an amount or
\* one of its three errors, never a panic; and an amount it returns is the
\* number the text stands for, never a wrapped one, decimals of 20 and more
\* included.
C30_ParseIsTotal ==
    op = "parse" =>
        /\ result.kind \in ParseErrorKinds \cup {"Amount"}
        /\ (result.kind = "Amount" /\ IsDecimalText(req.v, req.decimals)) =>
              /\ ~U64Less(U64MaxDigits, ScaledDigits(req.v, req.decimals))
              /\ result.amount = FromDigits(ScaledDigits(req.v, req.decimals))

(***************************************************************************)
(* C24                                                                     *)
(***************************************************************************)
\* C24: a chain reference converted from a string or from a CAIP-2 chain id
\* is testnet or mainnet, the conversion failing for any other reference and
\* for a namespace other than miden, so that every candidate the client
\* emits is for miden:testnet or miden:mainnet.
C24_ReferenceIsTestnetOrMainnet ==
    /\ \A value \in {"testnet", "mainnet", "devnet", ""} :
          MidenChainReferenceTryFromStr(value).ok => value \in {"testnet", "mainnet"}
    /\ op = "accept" =>
          /\ \A i \in 1..Len(req.payment_required.accepts) :
                LET entry == req.payment_required.accepts[i]
                IN  (/\ PaymentRequirementsTryFrom(entry).ok
                     /\ MidenChainReferenceTryFrom(
                            PaymentRequirementsTryFrom(entry).requirements.network).ok) =>
                        /\ entry.network.namespace = "miden"
                        /\ entry.network.reference \in {"testnet", "mainnet"}
          /\ \A i \in 1..Len(result.list) : result.list[i].chain_id \in Networks

(***************************************************************************)
(* C23                                                                     *)
(***************************************************************************)
\* The text is the decimal writing of the number of digits v: its digits
\* in order, no sign, no leading zero, "0" for zero.
IsDecimalOf(text, v) ==
    IF Len(v) = 0 THEN text = <<"0">>
    ELSE /\ Len(text) = Len(v)
         /\ text[1] # "0"
         /\ \A i \in 1..Len(v) : IsDigit(text[i]) /\ DigitVal(text[i]) = v[i]

\* C23: price_tag answers every input with requirements of scheme "exact",
\* network miden:<the token's chain reference>, pay_to and asset the hex
\* forms of the recipient and of the faucet id, amount the decimal string
\* of the amount in smallest units, max_timeout_seconds 300 and no extra.
C23_PriceTagRequirements ==
    op = "price_tag" =>
        /\ result.kind = "PriceTag"
        /\ result.requirements.scheme = "exact"
        /\ result.requirements.network.namespace = "miden"
        /\ result.requirements.network.reference = req.asset.token.chain_reference
        /\ result.requirements.pay_to = <<"0", "x">> \o hex_encode(req.pay_to)
        /\ result.requirements.asset = <<"0", "x">> \o hex_encode(req.asset.token.faucet_id)
        /\ IsDecimalOf(result.requirements.amount, req.asset.amount)
        /\ result.requirements.max_timeout_seconds = 300
        /\ ~result.requirements.extra.some

\* A price tag for an amount of zero on mainnet.
C23_Witness ==
    /\ op = "price_tag"
    /\ req.asset.amount = <<>>
    /\ req.asset.token.chain_reference = "mainnet"
    /\ result.requirements.amount = <<"0">>
    /\ result.requirements.network = ChainId("miden", "mainnet")

(***************************************************************************)
(* C25                                                                     *)
(***************************************************************************)
\* The error kinds verify and settle build.
ProducedErrorKinds ==
    {"InvalidProof", "PaymentNotFound", "ChainIdMismatch", "RecipientMismatch",
     "InsufficientPayment", "DeserializationError", "NoteBindingFailed",
     "ProviderError", "SchemeMismatch", "AssetMismatch"}

\* Every kind of MidenExactError: the produced ones and the two that are
\* declared and never built.
MidenExactErrorKinds ==
    ProducedErrorKinds \cup {"AcceptedRequirementsMismatch", "TransactionExpired"}

\* One message starts with the other.
SamePrefix(a, b) ==
    \/ Len(a) <= Len(b) /\ SubSeq(b, 1, Len(a)) = a
    \/ Len(b) <= Len(a) /\ SubSeq(a, 1, Len(b)) = b

NegativeText(s) == Len(s) > 0 /\ s[1] = "-"

NonIntegerText(s) == \E i \in 1..Len(s) : ~IsDigit(s[i]) /\ ~(i = 1 /\ s[i] \in {"+", "-"})

BeyondU64Text(s) ==
    /\ Len(s) > 0
    /\ \A i \in 1..Len(s) : IsDigit(s[i])
    /\ U64Less(U64MaxDigits, StripZeros([i \in 1..Len(s) |-> DigitVal(s[i])]))

UnparsableAmount(s) == NegativeText(s) \/ NonIntegerText(s) \/ BeyondU64Text(s)

\* The fields compared for equality, in the order of the checks, each with
\* the error of its mismatch.
EqualityChecks ==
    <<[field |-> "scheme", error |-> "SchemeMismatch"],
      [field |-> "network", error |-> "ChainIdMismatch"],
      [field |-> "pay_to", error |-> "RecipientMismatch"],
      [field |-> "asset", error |-> "AssetMismatch"]>>

Differs(i) ==
    req.payment_payload.accepted[EqualityChecks[i].field]
        # req.payment_requirements[EqualityChecks[i].field]

\* C28: check_requirements_match answers with the error of the first of
\* scheme, network, pay_to, asset in which accepted and the requirements
\* differ, whatever the later fields and the amounts are; an amount text
\* that is negative, no integer or above u64::MAX, on either side, gives
\* DeserializationError exactly when these four fields are equal, and never
\* Ok.
C28_FirstMismatchReported ==
    (pc = "done" /\ op = "check_requirements_match") =>
        /\ \A i \in 1..4 :
              (Differs(i) /\ \A j \in 1..(i - 1) : ~Differs(j))
                  => result.kind = EqualityChecks[i].error
        /\ (\/ UnparsableAmount(req.payment_payload.accepted.amount)
            \/ UnparsableAmount(req.payment_requirements.amount))
              => /\ result.kind # "Ok"
                 /\ result.kind = "DeserializationError" <=> \A i \in 1..4 : ~Differs(i)

\* Recipient and asset both differ and the accepted amount is negative:
\* the recipient's error is the answer.
C28_Witness ==
    /\ pc = "done"
    /\ op = "check_requirements_match"
    /\ ~Differs(2)
    /\ Differs(3)
    /\ Differs(4)
    /\ NegativeText(req.payment_payload.accepted.amount)
    /\ result.kind = "RecipientMismatch"

\* The four fields are equal and the required amount is above u64::MAX.
C28_WitnessParse ==
    /\ pc = "done"
    /\ op = "check_requirements_match"
    /\ \A i \in 1..4 : ~Differs(i)
    /\ BeyondU64Text(req.payment_requirements.amount)
    /\ result.kind = "DeserializationError"

(***************************************************************************)
(* C27                                                                     *)
(***************************************************************************)
\* The node's submit RPC was called and the node admitted the transaction.
SentAndAdmitted ==
    /\ \E i \in 1..Len(rpc) : rpc[i].call = "rpc.submit_proven_transaction"
    /\ nodeAnswer = "admitted"

\* C27: in every build a settle call ends with Success only when the proven
\* transaction was sent to the node and admitted by it; in a build without
\* network submission (no miden-client-native) the provider's submit fails
\* with NotImplemented and settle does not end with Success.
C27_SuccessOnlyIfAdmitted ==
    op = "settle" =>
        /\ result.kind = "Success" => SentAndAdmitted
        /\ (build # "miden-client-native" /\ "Submit" \in {stages[i] : i \in 1..Len(stages)})
              => /\ result.kind = "ProviderError"
                 /\ result.cause = "NotImplemented"

(***************************************************************************)
(* C29                                                                     *)
(***************************************************************************)
\* A verify call on the request of the call in progress returns Valid.
VerifyReturnsValid == verify_miden_payment(build, req).res.kind = "Valid"

\* transactionInputs is valid hex of bytes that are no TransactionInputs.
InputsNotDeserializable ==
    /\ ReqPayload.transaction_inputs.hex
    /\ ~ReadFromBytes("TransactionInputs", ReqPayload.transaction_inputs.bytes).ok

\* C29: a settle call on a request on which verify returns Valid ends with
\* Success or with ProviderError, never with the error of the second hex
\* decode or of a verification stage; when the request's transactionInputs
\* are valid hex and not deserializable, verify returns Valid all the same
\* and settle fails, with ProviderError.
C29_SettleAfterValidVerify ==
    (op = "settle" /\ VerifyReturnsValid) =>
        /\ result.kind \in {"Success", "ProviderError"}
        /\ InputsNotDeserializable => result.kind = "ProviderError"

\* The first half of C29 alone.
C29_SuccessOrProviderError ==
    (op = "settle" /\ VerifyReturnsValid) => result.kind \in {"Success", "ProviderError"}

(***************************************************************************)
(* C26                                                                     *)
(***************************************************************************)
\* The account of the signer, as the verifier writes a payer.
SignerAccountText ==
    AddressToString(from_account_id(AccountIdFromHex(req.account_id_hex).id))

\* C26: when an accepts entry r has given a candidate and the candidate's
\* sign_payment, with a signer that builds, executes and proves the
\* transfer, has given a payload, the payload carries r as `accepted`, the
\* facilitator reads it, check_requirements_match of it against r is Ok,
\* and verify_miden_payment answers Valid with the signer's account as
\* payer, in Public and in TrustedFacilitator mode.
C26_EndToEndValid ==
    (pc = "done" /\ op = "verify") =>
        /\ result.kind = "Verdict"
        /\ result.json.accepted = req.entry
        /\ result.request.payment_payload.accepted = result.request.payment_requirements
        /\ result.json.payload.privacyMode = req.privacy_mode
        /\ result.matched = OkResult
        /\ result.verdict = Valid(SignerAccountText)

\* A payment made in TrustedFacilitator mode and judged Valid.
C26_Witness ==
    /\ pc = "done"
    /\ op = "verify"
    /\ req.privacy_mode = "TrustedFacilitator"
    /\ result.kind = "Verdict"
    /\ result.json.payload.noteData.some
    /\ result.verdict.kind = "Valid"

\* A payment made in Public mode and judged Valid.
C26_WitnessPublic ==
    /\ pc = "done"
    /\ op = "verify"
    /\ req.privacy_mode = "Public"
    /\ result.kind = "Verdict"
    /\ result.verdict.kind = "Valid"

====
